---- MODULE Spec2Model ----
(***************************************************************************)
(* LAN-Communication-System: the server-side relay services.               *)
(*                                                                         *)
(* ScreenRelay (src/server_modules/screen_module.py): one accept thread    *)
(* and one handler thread per connection share the dictionary `clients`    *)
(* (username -> socket), the field `current_presenter` and the lock        *)
(* `presenter_lock`.  Every thread is modelled by its position (pc); the   *)
(* threads interleave between the statements that touch shared state.      *)
(*                                                                         *)
(* ParticipantRegistry (src/server_modules/participant_module.py): the     *)
(* accept thread and the handler threads share `clients` (socket ->        *)
(* username), `participants` (username -> record) and the lock `lock`.     *)
(* A broadcast copies both under the lock, sends without it and takes it   *)
(* again to prune the connections it could not write to.                   *)
(***************************************************************************)
EXTENDS Integers, Sequences, FiniteSets, TLC

\* ------------------------------------------------------------------ bounds
NConn == 3        \* connections the screen relay accepts in a run
MaxReq == 3       \* messages the screen clients send in a run
MaxReqLive == 2   \* the same, in the runs checked for liveness
MaxInbox == 1     \* unread messages queued on one screen connection
NSenders == 2     \* connections 1..NSenders write requests, the others only watch

Conns == 1..NConn
Users == {"A", "B", "C"}
None == "None"
NoConn == 0
Acceptor == NConn + 1
Unlocked == 0

\* The display name a connection may announce.  Two connections may announce
\* the same name: the relay does not reject it.
NameChoices(c) == IF c = 1 THEN {"A"} ELSE IF c = 2 THEN {"A", "B"} ELSE {"C"}

\* What a client writes on its connection after its name; "undecodable" is a
\* frame whose payload pickle.loads rejects.  A connection closed in the middle
\* of a message leaves "truncated" behind: the length prefix and a part of the
\* payload, followed by the end of the stream.
Requests == {"start_presenting", "stop_presenting", "screen_frame", "undecodable"}

VARIABLES
    clients,            \* ScreenServer.clients: username -> connection (NoConn: no entry)
    current_presenter,  \* ScreenServer.current_presenter
    presenter_lock,     \* ScreenServer.presenter_lock: the thread holding it, or Unlocked
    name,               \* the username argument of each connection's handler thread
    sock,               \* server side of each connection: "unborn", "open", "closed"
    peer,               \* whether the client side of the connection is still up
    inbox,              \* bytes in flight, client -> server, as whole messages
    pc,                 \* position of each connection's handler thread
    acc,                \* position of the accept thread and the connection it holds
    budget,             \* messages the clients may still write in this run
    op,                 \* the handler step taken last: [kind, conn]
    sent,               \* the sendall calls that returned normally in the step taken last
    stopped,            \* history: the user whose presentation was ended last
    told                \* history, per connection: the presenter_started notices
                        \* it was sent since the last presentation ended (0, 1, 2 = more)

VARIABLES
    p_clients,          \* ParticipantServer.clients: the registered sockets
    participants,       \* ParticipantServer.participants: username -> record
    lock,               \* ParticipantServer.lock: the thread holding it, or Unlocked
    p_name,             \* the username each connection announced
    p_sock,             \* server side of each connection: "unborn", "open", "closed"
    p_peer,             \* whether the client side of the connection is still up
    p_inbox,            \* lines in flight, client -> server
    p_pc,               \* position of every thread: the handlers and the accept thread
    p_conn,             \* the connection the accept thread is admitting
    p_snap,             \* per thread: the roster and the sockets a broadcast copied
    p_failed,           \* per thread: the sockets a broadcast could not write to
    p_ret,              \* per thread: where it goes on after the broadcast
    p_budget,           \* lines the clients may still write in this run
    p_op,               \* the step taken last: [kind, thread]
    p_sent,             \* the rosters delivered in the step taken last
    p_last              \* per connection, the roster delivered to it last

VARIABLES
    ch_entries,         \* ChatServer.clients: the dict's entries in insertion order
    ch_sock,            \* server side of each connection: "unborn", "open", "closed"
    ch_peer,            \* whether the connection is still up on the client side
    ch_inbox,           \* bytes in flight, client -> server, as the messages written
    ch_pc,              \* position of each connection's handler thread
    ch_it,              \* per handler: the broadcast it is in (the dict iterator)
    ch_budget           \* messages the clients may still write in this run

VARIABLES
    f_clients,          \* FileServer.clients: the list of connected sockets
    available_files,    \* FileServer.available_files: filename -> size
    disk,               \* the storage directory: filename -> bytes stored
    f_peer,             \* whether the connection is still up on the client side
    f_cmd,              \* the request in flight on each connection, client -> server
    f_data,             \* file bytes in flight on each connection, client -> server
    f_pc,               \* position of each connection's handler thread
    f_req,              \* per handler: the UPLOAD request it is serving
    f_recvd,            \* per handler: `received` of _handle_upload
    f_it,               \* per handler: the broadcast it is in (the list iterator)
    f_reply,            \* the last reply each handler wrote to its own socket
    f_budget            \* requests the clients may still write in this run

cVars == <<ch_entries, ch_sock, ch_peer, ch_inbox, ch_pc, ch_it, ch_budget>>

VARIABLES
    u_kind,             \* which UDP service runs: "none", "video" or "audio"
    u_now,              \* time.time(), in units of the sweep interval
    u_clients,          \* self.clients: address -> username
    u_last,             \* self.last_seen: address -> time
    u_chunks,           \* AudioServer.latest_chunks: address -> samples
    u_pkt,              \* the datagram the receive loop is processing
    u_pc,               \* position of the receive loop
    u_todo,             \* addresses of the copied key list not yet served
    u_failed,           \* the list `disconnected`
    u_sent,             \* datagrams sent while processing u_pkt
    u_sweep,            \* the cleanup thread: position, `now`, `stale`
    u_next,             \* when time.sleep(3) of the cleanup thread is over
    u_budget,           \* datagrams the clients may still send in this run
    u_fails             \* sendto failures that may still happen in this run

uVars == <<u_kind, u_now, u_clients, u_last, u_chunks, u_pkt, u_pc, u_todo, u_failed,
           u_sent, u_sweep, u_next, u_budget, u_fails>>

VARIABLES
    v_name,             \* the sending VideoClient's username, <<>> before connect
    v_counter,          \* the sender's _frame_counter
    v_cur,              \* the last _send_frame call: frame id, bytes, time
    v_net,              \* chunk indices of the last frame on their way to the receiver
    v_frames,           \* the receiver's _incoming_frames: key -> (index -> payload)
    v_meta,             \* the receiver's _frame_meta: key -> total, created
    v_out,              \* the bytes last joined for decoding; was the callback called
    v_seen,             \* history: key -> the chunk indices handled under it
    v_born,             \* history: key -> when its buffer was created
    v_now,              \* time.time(), in units of half a second
    v_quiet,            \* time since the receiver last called recvfrom
    v_left,             \* _send_frame calls still made in this run
    v_noise             \* datagram faults the network may still produce

vVars == <<v_name, v_counter, v_cur, v_net, v_frames, v_meta, v_out, v_seen, v_born,
           v_now, v_quiet, v_left, v_noise>>

VARIABLES
    module_states,      \* MainServer.module_states, by position in self.modules
    active_modules,     \* MainServer.active_modules
    o_running,          \* MainServer.running
    o_pc,               \* position of the thread inside start_modules / stop_modules
    o_index,            \* start_modules: the loop's position in self.modules
    o_started,          \* start_modules: the list `started`
    o_todo,             \* _stop_modules_list: the modules still to stop, in order
    o_up,               \* the services that run: start() returned, stop() did not yet
    o_calls,            \* history: the start() and stop() calls of the current handler
    o_raised,           \* history: the last start_modules raised to its caller
    o_runs              \* calls of start_modules and stop_modules still made in this run

oVars == <<module_states, active_modules, o_running, o_pc, o_index, o_started, o_todo,
           o_up, o_calls, o_raised, o_runs>>

fVars == <<f_clients, available_files, disk, f_peer, f_cmd, f_data, f_pc, f_req, f_recvd,
           f_it, f_reply, f_budget>>

pVars == <<p_clients, participants, lock, p_name, p_sock, p_peer, p_inbox, p_pc, p_conn,
           p_snap, p_failed, p_ret, p_budget, p_op, p_sent, p_last>>

sVars == <<clients, current_presenter, presenter_lock, name, sock, peer, inbox, pc,
           acc, budget, op, sent, stopped, told>>

\* The services share no state: a step of one leaves the others' variables alone.
ScreenOnly == UNCHANGED <<pVars, cVars, fVars, uVars, vVars, oVars>>
PartOnly == UNCHANGED <<sVars, cVars, fVars, uVars, vVars, oVars>>
ChatOnly == UNCHANGED <<sVars, pVars, fVars, uVars, vVars, oVars>>
FileOnly == UNCHANGED <<sVars, pVars, cVars, uVars, vVars, oVars>>
UdpOnly == UNCHANGED <<sVars, pVars, cVars, fVars, vVars, oVars>>
VideoOnly == UNCHANGED <<sVars, pVars, cVars, fVars, uVars, oVars>>
OrchOnly == UNCHANGED <<sVars, pVars, cVars, fVars, uVars, vVars>>

\* ---------------------------------------------------------------- messages
Msg(t, u, a) == [type |-> t, username |-> u, allowed |-> a]
PresenterStarted(u) == Msg("presenter_started", u, "-")
PresenterStopped(u) == Msg("presenter_stopped", u, "-")
PresentingAllowed == Msg("presenting_allowed", None, "true")
PresentingDenied(p) == Msg("presenting_allowed", p, "false")
ScreenFrame(u) == Msg("screen_frame", u, "-")

\* One successful sendall: the socket written to, the registry key it was
\* looked up under, and the message.
Sent(c, u, m) == [to |-> c, user |-> u, msg |-> m]

\* ------------------------------------------------------------------- sends
\* sendall raises on a socket the server has closed; on a socket whose peer
\* is gone it either raises or returns after buffering bytes nobody reads.
MustFail(sk, c) == sk[c] # "open"
CanFail(sk, c) == sk[c] # "open" \/ ~peer[c]

\* The usernames a broadcast iterates over: list(self.clients.items()).
Targets(cl, excl) == {u \in Users : cl[u] # NoConn /\ u \notin excl}

\* The sets of usernames whose sendall may raise during one broadcast.
FailChoices(cl, sk, T) ==
    {F \in SUBSET T : /\ \A u \in T : MustFail(sk, cl[u]) => u \in F
                      /\ \A u \in F : CanFail(sk, cl[u])}

\* _remove_client for every username of F: close the socket, delete the entry.
RemoveClients(cl, F) == [u \in Users |-> IF u \in F THEN NoConn ELSE cl[u]]
CloseClients(cl, sk, F) ==
    [c \in Conns |-> IF \E u \in F : cl[u] = c THEN "closed" ELSE sk[c]]

\* _send_to_client(u, m): whether the one sendall may raise.
ReplyFailChoices(cl, sk, u) ==
    IF cl[u] = NoConn THEN {FALSE}
    ELSE {b \in BOOLEAN : (MustFail(sk, cl[u]) => b) /\ (b => CanFail(sk, cl[u]))}

\* The registry, the sockets and the deliveries after _send_to_client(u, m).
SendToClient(cl, sk, u, m, fails) ==
    IF cl[u] = NoConn THEN [clients |-> cl, sock |-> sk, sent |-> {}]
    ELSE IF fails
         THEN [clients |-> RemoveClients(cl, {u}),
               sock |-> CloseClients(cl, sk, {u}), sent |-> {}]
         ELSE [clients |-> cl, sock |-> sk, sent |-> {Sent(cl[u], u, m)}]

\* The registry, the sockets and the deliveries after _broadcast_to_all /
\* _broadcast_to_all_except with the sends to F raising.
Broadcast(cl, sk, excl, m, F) ==
    [clients |-> RemoveClients(cl, F),
     sock |-> CloseClients(cl, sk, F),
     sent |-> {Sent(cl[u], u, m) : u \in Targets(cl, excl) \ F}]

\* ------------------------------------------------------- the handlers' tests
\* _accept_clients: if self.current_presenter:
ShouldNotify_Never == FALSE
ShouldNotify == current_presenter # None

\* _handle_start_presenting: if self.current_presenter is None:
Vacant_Always == TRUE
Vacant == current_presenter = None

\* _handle_stop_presenting: if self.current_presenter == username:
MayStop_Anyone(u) == current_presenter # None
MayStop(u) == current_presenter = u

\* _handle_client, screen_frame: if self.current_presenter == username:
MayRelay_Anyone(u) == TRUE
MayRelay(u) == current_presenter = u

\* _handle_client, screen_frame: self._broadcast_to_all_except(username, ...)
FrameExcluded(u) == {u}

\* _handle_start_presenting: the reply to a granted request.
GrantReply_Missing(cl, sk, u, fails) == [clients |-> cl, sock |-> sk, sent |-> {}]
GrantReply(cl, sk, u, fails) == SendToClient(cl, sk, u, PresentingAllowed, fails)

\* _handle_start_presenting: the reply to a refused request.
DenyReply_ToAll(cl, sk, u, p, fails) == Broadcast(cl, sk, {}, PresentingDenied(p), {})
DenyReply(cl, sk, u, p, fails) == SendToClient(cl, sk, u, PresentingDenied(p), fails)

\* -------------------------------------------------------------------- lock
\* presenter_lock is a threading.Lock: a thread enters a `with` block only
\* while no thread holds it.
LockFree_NoExclusion == TRUE
LockFree == presenter_lock = Unlocked

Quiet == [kind |-> "-", conn |-> NoConn]

\* The notices every connection has been sent after a step: one more for a
\* presenter_started delivered in the step, none once the presentation ends.
Heard ==
    [c \in Conns |->
        IF current_presenter # None /\ current_presenter' = None THEN 0
        ELSE IF \E s \in sent' : s.to = c /\ s.msg.type = "presenter_started"
             THEN IF told[c] = 0 THEN 1 ELSE 2
             ELSE told[c]]

\* -------------------------------------------------------------------- init
ScreenInitWith(n) ==
    /\ clients = [u \in Users |-> NoConn]
    /\ current_presenter = None
    /\ presenter_lock = Unlocked
    /\ name = [c \in Conns |-> None]
    /\ sock = [c \in Conns |-> "unborn"]
    /\ peer = [c \in Conns |-> FALSE]
    /\ inbox = [c \in Conns |-> <<>>]
    /\ pc = [c \in Conns |-> "unstarted"]
    /\ acc = [pc |-> "accept", conn |-> NoConn]
    /\ budget = n
    /\ op = Quiet
    /\ sent = {}
    /\ stopped = None
    /\ told = [c \in Conns |-> 0]

ScreenInit == ScreenInitWith(MaxReq)
ScreenInitLive == ScreenInitWith(MaxReqLive)

\* ----------------------------------------------------------------- clients
\* A client connects: server_socket.accept() returns its socket.
Connect(c) ==
    /\ acc.pc = "accept"
    /\ sock[c] = "unborn"
    /\ sock' = [sock EXCEPT ![c] = "open"]
    /\ peer' = [peer EXCEPT ![c] = TRUE]
    /\ acc' = [pc |-> "recv_name", conn |-> c]
    /\ op' = Quiet
    /\ sent' = {}
    /\ UNCHANGED <<clients, current_presenter, presenter_lock, name, inbox, pc, budget,
                   stopped>>
    /\ ScreenOnly
    /\ told' = Heard

\* A registered client writes one message.
ClientSend(c, m) ==
    /\ peer[c]
    /\ name[c] # None
    /\ c \in 1..NSenders
    /\ budget > 0
    /\ Len(inbox[c]) < MaxInbox
    /\ inbox' = [inbox EXCEPT ![c] = Append(@, m)]
    /\ budget' = budget - 1
    /\ op' = Quiet
    /\ sent' = {}
    /\ UNCHANGED <<clients, current_presenter, presenter_lock, name, sock, peer, pc,
                   acc, stopped>>
    /\ ScreenOnly
    /\ told' = Heard

\* The client side of a connection goes away; what it wrote stays readable.
ClientClose(c) ==
    /\ peer[c]
    /\ name[c] # None
    /\ peer' = [peer EXCEPT ![c] = FALSE]
    /\ op' = Quiet
    /\ sent' = {}
    /\ UNCHANGED <<clients, current_presenter, presenter_lock, name, sock, inbox, pc,
                   acc, budget, stopped>>
    /\ ScreenOnly
    /\ told' = Heard

\* The client side goes away in the middle of a message: the length prefix and
\* a part of the payload were written, then the connection is closed in order.
ClientCloseMidMessage(c) ==
    /\ peer[c]
    /\ name[c] # None
    /\ c \in 1..NSenders
    /\ Len(inbox[c]) < MaxInbox
    /\ inbox' = [inbox EXCEPT ![c] = Append(@, "truncated")]
    /\ peer' = [peer EXCEPT ![c] = FALSE]
    /\ op' = Quiet
    /\ sent' = {}
    /\ UNCHANGED <<clients, current_presenter, presenter_lock, name, sock, pc, acc, budget,
                   stopped>>
    /\ ScreenOnly
    /\ told' = Heard

\* ------------------------------------------------------------ accept thread
\* username = client_socket.recv(1024).decode('utf-8'); self.clients[username] =
\* client_socket.  The entry of an earlier connection of that name is replaced.
RecvName(c, u) ==
    /\ acc = [pc |-> "recv_name", conn |-> c]
    /\ peer[c]
    /\ u \in NameChoices(c)
    /\ name' = [name EXCEPT ![c] = u]
    /\ clients' = [clients EXCEPT ![u] = c]
    /\ acc' = [pc |-> "on_connect", conn |-> c]
    /\ op' = [kind |-> "register", conn |-> c]
    /\ sent' = {}
    /\ UNCHANGED <<current_presenter, presenter_lock, sock, peer, inbox, pc, budget, stopped>>
    /\ ScreenOnly
    /\ told' = Heard

\* The recv or the decode raises: the except clause leaves the accept loop.
RecvNameFails(c) ==
    /\ acc = [pc |-> "recv_name", conn |-> c]
    /\ peer' = [peer EXCEPT ![c] = FALSE]
    /\ acc' = [pc |-> "dead", conn |-> NoConn]
    /\ op' = Quiet
    /\ sent' = {}
    /\ UNCHANGED <<clients, current_presenter, presenter_lock, name, sock, inbox, pc,
                   budget, stopped>>
    /\ ScreenOnly
    /\ told' = Heard

\* with self.presenter_lock: if self.current_presenter:
\* self._send_to_client(username, presenter_started); then the handler thread
\* of the connection is started.
OnConnect(c) ==
    /\ acc = [pc |-> "on_connect", conn |-> c]
    /\ LockFree
    /\ \E fails \in ReplyFailChoices(clients, sock, name[c]) :
         LET r == IF ShouldNotify
                  THEN SendToClient(clients, sock, name[c],
                                    PresenterStarted(current_presenter), fails)
                  ELSE [clients |-> clients, sock |-> sock, sent |-> {}]
         IN /\ clients' = r.clients
            /\ sock' = r.sock
            /\ sent' = r.sent
    /\ pc' = [pc EXCEPT ![c] = "recv"]
    /\ acc' = [pc |-> "accept", conn |-> NoConn]
    /\ op' = [kind |-> "on_connect", conn |-> c]
    /\ UNCHANGED <<current_presenter, presenter_lock, name, peer, inbox, budget, stopped>>
    /\ ScreenOnly
    /\ told' = Heard

\* ----------------------------------------------------------- handler thread
\* The handler has read and unpickled message m and is about to act on it.
Reads(c, m) == pc[c] = "recv" /\ inbox[c] # <<>> /\ Head(inbox[c]) = m

\* _handle_start_presenting, refused: with the lock held the presenter is
\* found set and presenting_allowed{allowed: False, current_presenter} is
\* sent to the requester.
Deny(c) ==
    /\ \E fails \in ReplyFailChoices(clients, sock, name[c]) :
         LET r == DenyReply(clients, sock, name[c], current_presenter, fails)
         IN /\ clients' = r.clients
            /\ sock' = r.sock
            /\ sent' = r.sent
    /\ op' = [kind |-> "deny", conn |-> c]
    /\ UNCHANGED <<current_presenter, presenter_lock, pc>>

\* _handle_start_presenting: the lock is taken and current_presenter is
\* tested; when it is None the thread goes on, holding the lock.
StartPresenting(c) ==
    /\ Reads(c, "start_presenting")
    /\ LockFree
    /\ inbox' = [inbox EXCEPT ![c] = Tail(@)]
    /\ IF Vacant
       THEN /\ presenter_lock' = c
            /\ pc' = [pc EXCEPT ![c] = "sp_set"]
            /\ op' = Quiet
            /\ sent' = {}
            /\ UNCHANGED <<clients, sock, current_presenter>>
       ELSE Deny(c)
    /\ UNCHANGED <<name, peer, acc, budget, stopped>>
    /\ ScreenOnly
    /\ told' = Heard

\* self.current_presenter = username
SpSet(c) ==
    /\ pc[c] = "sp_set"
    /\ current_presenter' = name[c]
    /\ pc' = [pc EXCEPT ![c] = "sp_notify"]
    /\ op' = Quiet
    /\ sent' = {}
    /\ UNCHANGED <<clients, presenter_lock, name, sock, peer, inbox, acc, budget, stopped>>
    /\ ScreenOnly
    /\ told' = Heard

\* self._broadcast_to_all(presenter_started); self._send_to_client(username,
\* presenting_allowed{allowed: True}); the lock is released.
SpNotify(c) ==
    /\ pc[c] = "sp_notify"
    /\ \E F \in FailChoices(clients, sock, Targets(clients, {})) :
         LET b == Broadcast(clients, sock, {}, PresenterStarted(name[c]), F)
         IN \E fails \in ReplyFailChoices(b.clients, b.sock, name[c]) :
              LET r == GrantReply(b.clients, b.sock, name[c], fails)
              IN /\ clients' = r.clients
                 /\ sock' = r.sock
                 /\ sent' = b.sent \cup r.sent
    /\ presenter_lock' = Unlocked
    /\ pc' = [pc EXCEPT ![c] = "recv"]
    /\ op' = [kind |-> "grant", conn |-> c]
    /\ UNCHANGED <<current_presenter, name, peer, inbox, acc, budget, stopped>>
    /\ ScreenOnly
    /\ told' = Heard

\* _handle_stop_presenting(username), all of it under the lock.
HandleStopPresenting(c, kind) ==
    /\ LockFree
    /\ IF MayStop(name[c])
       THEN /\ current_presenter' = None
            /\ stopped' = name[c]
            /\ \E F \in FailChoices(clients, sock, Targets(clients, {})) :
                 LET b == Broadcast(clients, sock, {}, PresenterStopped(name[c]), F)
                 IN /\ clients' = b.clients
                    /\ sock' = b.sock
                    /\ sent' = b.sent
       ELSE /\ sent' = {}
            /\ UNCHANGED <<current_presenter, clients, sock, stopped>>
    /\ op' = [kind |-> kind, conn |-> c]
    /\ UNCHANGED <<presenter_lock, name, peer, acc, budget>>
    /\ ScreenOnly
    /\ told' = Heard

\* _handle_client, after the loop: self._handle_stop_presenting(username)
ExitStop(c) == HandleStopPresenting(c, "exit_stop")

\* stop_presenting received from the client.
StopPresenting(c) ==
    /\ Reads(c, "stop_presenting")
    /\ inbox' = [inbox EXCEPT ![c] = Tail(@)]
    /\ HandleStopPresenting(c, "stop")
    /\ UNCHANGED pc

\* pickle.loads raises on the message read: the loop is left and
\* self._handle_stop_presenting(username) runs.
RecvUndecodable(c) ==
    /\ Reads(c, "undecodable")
    /\ inbox' = [inbox EXCEPT ![c] = Tail(@)]
    /\ ExitStop(c)
    /\ pc' = [pc EXCEPT ![c] = "x_remove"]

\* recv returns b"" or raises: the loop is left and
\* self._handle_stop_presenting(username) runs.
RecvEnds(c) ==
    /\ pc[c] = "recv"
    /\ sock[c] = "closed" \/ (~peer[c] /\ inbox[c] = <<>>)
    /\ ExitStop(c)
    /\ pc' = [pc EXCEPT ![c] = "x_remove"]
    /\ UNCHANGED inbox

\* The length prefix is complete and the payload is not: the handler enters
\* `while len(data) < msg_size: data += client_socket.recv(BUFFER_SIZE)`.
\* After the end of the stream recv returns b"" at once, every time: data
\* never grows and the loop does not end while the socket stays open.
RecvBody(c) ==
    /\ Reads(c, "truncated")
    /\ inbox' = [inbox EXCEPT ![c] = Tail(@)]
    /\ pc' = [pc EXCEPT ![c] = "recv_body"]
    /\ op' = Quiet
    /\ sent' = {}
    /\ UNCHANGED <<clients, current_presenter, presenter_lock, name, sock, peer, acc, budget,
                   stopped>>
    /\ ScreenOnly
    /\ told' = Heard

\* The recv of the payload loop raises once another thread has closed the
\* socket (_remove_client after a failed send): the loop is left.
RecvBodyRaises(c) ==
    /\ pc[c] = "recv_body"
    /\ sock[c] = "closed"
    /\ ExitStop(c)
    /\ pc' = [pc EXCEPT ![c] = "x_remove"]
    /\ UNCHANGED inbox

\* After the receive loop: self._remove_client(username)
XRemove(c) ==
    /\ pc[c] = "x_remove"
    /\ clients' = RemoveClients(clients, {name[c]})
    /\ sock' = CloseClients(clients, sock, {name[c]})
    /\ pc' = [pc EXCEPT ![c] = "done"]
    /\ op' = [kind |-> "remove", conn |-> c]
    /\ sent' = {}
    /\ UNCHANGED <<current_presenter, presenter_lock, name, peer, inbox, acc, budget, stopped>>
    /\ ScreenOnly
    /\ told' = Heard

\* The screen_frame branch, under the lock: relayed by
\* _broadcast_to_all_except when the sender is the presenter, dropped otherwise.
RelayFrame(c) ==
    /\ Reads(c, "screen_frame")
    /\ LockFree
    /\ inbox' = [inbox EXCEPT ![c] = Tail(@)]
    /\ IF MayRelay(name[c])
       THEN \E F \in FailChoices(clients, sock, Targets(clients, FrameExcluded(name[c]))) :
              LET b == Broadcast(clients, sock, FrameExcluded(name[c]),
                                 ScreenFrame(name[c]), F)
              IN /\ clients' = b.clients
                 /\ sock' = b.sock
                 /\ sent' = b.sent
       ELSE /\ sent' = {}
            /\ UNCHANGED <<clients, sock>>
    /\ op' = [kind |-> "frame", conn |-> c]
    /\ UNCHANGED <<current_presenter, presenter_lock, name, peer, pc, acc, budget, stopped>>
    /\ ScreenOnly
    /\ told' = Heard

\* -------------------------------------------------------------------- next
ClientStep(c) ==
    \/ Connect(c)
    \/ \E m \in Requests : ClientSend(c, m)
    \/ ClientClose(c)
    \/ ClientCloseMidMessage(c)

AcceptStep(c) ==
    \/ \E u \in Users : RecvName(c, u)
    \/ RecvNameFails(c)
    \/ OnConnect(c)

HandlerStep(c) ==
    \/ StartPresenting(c)
    \/ SpSet(c)
    \/ SpNotify(c)
    \/ StopPresenting(c)
    \/ RelayFrame(c)
    \/ RecvUndecodable(c)
    \/ RecvEnds(c)
    \/ RecvBody(c)
    \/ RecvBodyRaises(c)
    \/ XRemove(c)

ScreenNext == \E c \in Conns : ClientStep(c) \/ AcceptStep(c) \/ HandlerStep(c)

\* ====================================================== ParticipantRegistry
NPConn == 2       \* connections the participant registry accepts in a run
PMaxReq == 2      \* lines the participant clients write in a run
PMaxInbox == 1    \* unread lines queued on one participant connection

PConns == 1..NPConn
PAcceptor == NPConn + 1
PThreads == PConns \cup {PAcceptor}
PUsers == {"A", "B"}
PNameChoices(c) == IF c = 1 THEN {"A"} ELSE {"A", "B"}

\* A line a client writes: a JSON object with a type and one value, or bytes
\* json.loads rejects.
Line(t, v) == [type |-> t, value |-> v]
PRequests ==
    {Line("status_update", "away"), Line("video_status", "true"),
     Line("keepalive", "-"), Line("garbage", "-")}

\* A record of `participants`; Absent stands for a username that is no key.
Absent == [status |-> "absent", video_active |-> "false"]
Joined == [status |-> "online", video_active |-> "false"]
NoSnap == [roster |-> [u \in PUsers |-> Absent], targets |-> {}]

PQuiet == [kind |-> "-", thread |-> 0]

PartInit ==
    /\ p_clients = {}
    /\ participants = [u \in PUsers |-> Absent]
    /\ lock = Unlocked
    /\ p_name = [c \in PConns |-> None]
    /\ p_sock = [c \in PConns |-> "unborn"]
    /\ p_peer = [c \in PConns |-> FALSE]
    /\ p_inbox = [c \in PConns |-> <<>>]
    /\ p_pc = [t \in PThreads |-> IF t = PAcceptor THEN "accept" ELSE "unstarted"]
    /\ p_conn = NoConn
    /\ p_snap = [t \in PThreads |-> NoSnap]
    /\ p_failed = [t \in PThreads |-> {}]
    /\ p_ret = [t \in PThreads |-> "-"]
    /\ p_budget = PMaxReq
    /\ p_op = PQuiet
    /\ p_sent = {}
    /\ p_last = [c \in PConns |-> NoSnap.roster]

\* ----------------------------------------------------------------- clients
PConnect(c) ==
    /\ p_pc[PAcceptor] = "accept"
    /\ p_sock[c] = "unborn"
    /\ p_sock' = [p_sock EXCEPT ![c] = "open"]
    /\ p_peer' = [p_peer EXCEPT ![c] = TRUE]
    /\ p_conn' = c
    /\ p_pc' = [p_pc EXCEPT ![PAcceptor] = "recv_name"]
    /\ p_op' = PQuiet
    /\ p_sent' = {}
    /\ UNCHANGED p_last
    /\ UNCHANGED <<p_clients, participants, lock, p_name, p_inbox, p_snap, p_failed,
                   p_ret, p_budget>>
    /\ PartOnly

PClientSend(c, m) ==
    /\ p_peer[c]
    /\ p_name[c] # None
    /\ p_budget > 0
    /\ Len(p_inbox[c]) < PMaxInbox
    /\ p_inbox' = [p_inbox EXCEPT ![c] = Append(@, m)]
    /\ p_budget' = p_budget - 1
    /\ p_op' = PQuiet
    /\ p_sent' = {}
    /\ UNCHANGED p_last
    /\ UNCHANGED <<p_clients, participants, lock, p_name, p_sock, p_peer, p_pc, p_conn,
                   p_snap, p_failed, p_ret>>
    /\ PartOnly

PClientClose(c) ==
    /\ p_peer[c]
    /\ p_name[c] # None
    /\ p_peer' = [p_peer EXCEPT ![c] = FALSE]
    /\ p_op' = PQuiet
    /\ p_sent' = {}
    /\ UNCHANGED p_last
    /\ UNCHANGED <<p_clients, participants, lock, p_name, p_sock, p_inbox, p_pc, p_conn,
                   p_snap, p_failed, p_ret, p_budget>>
    /\ PartOnly

\* ------------------------------------------------------------------- sends
PMustFail(c) == p_sock[c] # "open"
PCanFail(c) == p_sock[c] # "open" \/ ~p_peer[c]
PFailChoices(T) ==
    {F \in SUBSET T : (\A c \in T : PMustFail(c) => c \in F) /\ (\A c \in F : PCanFail(c))}

\* One delivered participant_list.
Roster(c, r) == [to |-> c, roster |-> r]

\* What each connection holds as its latest roster after the sends of a step.
Delivered(last, sends) ==
    [c \in PConns |->
        IF \E s \in sends : s.to = c
        THEN (CHOOSE s \in sends : s.to = c).roster
        ELSE last[c]]

\* ------------------------------------------------------------ accept thread
\* username = client_socket.recv(1024).decode('utf-8')
PRecvName(c, u) ==
    /\ p_pc[PAcceptor] = "recv_name"
    /\ p_conn = c
    /\ p_peer[c]
    /\ u \in PNameChoices(c)
    /\ p_name' = [p_name EXCEPT ![c] = u]
    /\ p_pc' = [p_pc EXCEPT ![PAcceptor] = "register"]
    /\ p_op' = PQuiet
    /\ p_sent' = {}
    /\ UNCHANGED p_last
    /\ UNCHANGED <<p_clients, participants, lock, p_sock, p_peer, p_inbox, p_conn, p_snap,
                   p_failed, p_ret, p_budget>>
    /\ PartOnly

\* The recv or the decode raises: the except clause leaves the accept loop.
PRecvNameFails(c) ==
    /\ p_pc[PAcceptor] = "recv_name"
    /\ p_conn = c
    /\ p_peer' = [p_peer EXCEPT ![c] = FALSE]
    /\ p_pc' = [p_pc EXCEPT ![PAcceptor] = "dead"]
    /\ p_op' = PQuiet
    /\ p_sent' = {}
    /\ UNCHANGED p_last
    /\ UNCHANGED <<p_clients, participants, lock, p_name, p_sock, p_inbox, p_conn, p_snap,
                   p_failed, p_ret, p_budget>>
    /\ PartOnly

\* with self.lock: self.clients[client_socket] = username;
\* self.participants[username] = {status: online, video_active: False}
PRegister ==
    /\ p_pc[PAcceptor] = "register"
    /\ lock = Unlocked
    /\ p_clients' = p_clients \cup {p_conn}
    /\ participants' = [participants EXCEPT ![p_name[p_conn]] = Joined]
    /\ p_pc' = [p_pc EXCEPT ![PAcceptor] = "list_snap"]
    /\ p_op' = [kind |-> "register", thread |-> PAcceptor]
    /\ p_sent' = {}
    /\ UNCHANGED p_last
    /\ UNCHANGED <<lock, p_name, p_sock, p_peer, p_inbox, p_conn, p_snap, p_failed, p_ret,
                   p_budget>>
    /\ PartOnly

\* _send_participant_list: with self.lock: the roster is copied.
PListSnap ==
    /\ p_pc[PAcceptor] = "list_snap"
    /\ lock = Unlocked
    /\ p_snap' = [p_snap EXCEPT ![PAcceptor] =
                     [roster |-> participants, targets |-> {p_conn}]]
    /\ p_pc' = [p_pc EXCEPT ![PAcceptor] = "list_send"]
    /\ p_op' = PQuiet
    /\ p_sent' = {}
    /\ UNCHANGED p_last
    /\ UNCHANGED <<p_clients, participants, lock, p_name, p_sock, p_peer, p_inbox, p_conn,
                   p_failed, p_ret, p_budget>>
    /\ PartOnly

\* _send_participant_list: the copy is sent to the new connection; an error
\* is printed and nothing else is done.  _broadcast_participant_update follows.
PListSend ==
    /\ p_pc[PAcceptor] = "list_send"
    /\ \E F \in PFailChoices({p_conn}) :
         p_sent' = {Roster(c, p_snap[PAcceptor].roster) : c \in {p_conn} \ F}
    /\ p_snap' = [p_snap EXCEPT ![PAcceptor] = NoSnap]
    /\ p_pc' = [p_pc EXCEPT ![PAcceptor] = "bc_snap"]
    /\ p_op' = [kind |-> "list", thread |-> PAcceptor]
    /\ p_last' = Delivered(p_last, p_sent')
    /\ UNCHANGED <<p_clients, participants, lock, p_name, p_sock, p_peer, p_inbox, p_conn,
                   p_failed, p_ret, p_budget>>
    /\ PartOnly

\* --------------------------------------------- _broadcast_participant_update
\* The thread goes on after the broadcast: the accept thread starts the
\* handler of the connection it admitted and accepts again; a handler returns
\* to its loop or ends.  (Locals a thread no longer reads are reset.)
AfterBroadcast(t) ==
    IF t = PAcceptor
    THEN [p_pc EXCEPT ![PAcceptor] = "accept", ![p_conn] = "recv"]
    ELSE [p_pc EXCEPT ![t] = p_ret[t]]

\* with self.lock: the roster and the registered sockets are copied.
BcSnap(t) ==
    /\ p_pc[t] = "bc_snap"
    /\ lock = Unlocked
    /\ p_snap' = [p_snap EXCEPT ![t] = [roster |-> participants, targets |-> p_clients]]
    /\ p_pc' = [p_pc EXCEPT ![t] = "bc_send"]
    /\ p_op' = PQuiet
    /\ p_sent' = {}
    /\ UNCHANGED p_last
    /\ UNCHANGED <<p_clients, participants, lock, p_name, p_sock, p_peer, p_inbox, p_conn,
                   p_failed, p_ret, p_budget>>
    /\ PartOnly

\* The copy is sent to every copied socket without the lock; the sockets whose
\* sendall raised are collected.
BcSend(t) ==
    /\ p_pc[t] = "bc_send"
    /\ \E F \in PFailChoices(p_snap[t].targets) :
         /\ p_sent' = {Roster(c, p_snap[t].roster) : c \in p_snap[t].targets \ F}
         /\ p_failed' = [p_failed EXCEPT ![t] = F]
         /\ p_pc' = IF F = {} THEN AfterBroadcast(t) ELSE [p_pc EXCEPT ![t] = "bc_prune"]
         /\ p_ret' = IF F = {} THEN [p_ret EXCEPT ![t] = "-"] ELSE p_ret
    /\ p_snap' = [p_snap EXCEPT ![t] = NoSnap]
    /\ p_op' = [kind |-> "broadcast", thread |-> t]
    /\ p_last' = Delivered(p_last, p_sent')
    /\ UNCHANGED <<p_clients, participants, lock, p_name, p_sock, p_peer, p_inbox, p_conn,
                   p_budget>>
    /\ PartOnly

\* with self.lock: every collected socket and the record of its username are
\* deleted and the socket is closed.
BcPrune(t) ==
    /\ p_pc[t] = "bc_prune"
    /\ lock = Unlocked
    /\ p_clients' = p_clients \ p_failed[t]
    /\ participants' = [u \in PUsers |->
                          IF \E c \in p_failed[t] : p_name[c] = u THEN Absent
                          ELSE participants[u]]
    /\ p_sock' = [c \in PConns |-> IF c \in p_failed[t] THEN "closed" ELSE p_sock[c]]
    /\ p_failed' = [p_failed EXCEPT ![t] = {}]
    /\ p_pc' = AfterBroadcast(t)
    /\ p_ret' = [p_ret EXCEPT ![t] = "-"]
    /\ p_op' = [kind |-> "prune", thread |-> t]
    /\ p_sent' = {}
    /\ UNCHANGED p_last
    /\ UNCHANGED <<lock, p_name, p_peer, p_inbox, p_conn, p_snap, p_budget>>
    /\ PartOnly

\* ----------------------------------------------------------- handler thread
PReads(c, t) == p_pc[c] = "recv" /\ p_inbox[c] # <<>> /\ Head(p_inbox[c]).type = t

\* status_update: with self.lock: the status is set and
\* self._broadcast_participant_update() is called inside the with block, the
\* lock still held by this thread.
PStatusUpdate(c) ==
    /\ PReads(c, "status_update")
    /\ lock = Unlocked
    /\ p_inbox' = [p_inbox EXCEPT ![c] = Tail(@)]
    /\ IF participants[p_name[c]] # Absent
       THEN /\ participants' = [participants EXCEPT
                                   ![p_name[c]].status = Head(p_inbox[c]).value]
            /\ lock' = c
            /\ p_pc' = [p_pc EXCEPT ![c] = "bc_snap"]
            /\ p_ret' = [p_ret EXCEPT ![c] = "recv"]
       ELSE UNCHANGED <<participants, lock, p_pc, p_ret>>
    /\ p_op' = [kind |-> "status_update", thread |-> c]
    /\ p_sent' = {}
    /\ UNCHANGED p_last
    /\ UNCHANGED <<p_clients, p_name, p_sock, p_peer, p_conn, p_snap, p_failed, p_budget>>
    /\ PartOnly

\* video_status: with self.lock: video_active is set; the lock is released
\* and self._broadcast_participant_update() is called.
PVideoStatus(c) ==
    /\ PReads(c, "video_status")
    /\ lock = Unlocked
    /\ p_inbox' = [p_inbox EXCEPT ![c] = Tail(@)]
    /\ participants' =
         IF participants[p_name[c]] # Absent
         THEN [participants EXCEPT ![p_name[c]].video_active = Head(p_inbox[c]).value]
         ELSE participants
    /\ p_pc' = [p_pc EXCEPT ![c] = "bc_snap"]
    /\ p_ret' = [p_ret EXCEPT ![c] = "recv"]
    /\ p_op' = [kind |-> "video_status", thread |-> c]
    /\ p_sent' = {}
    /\ UNCHANGED p_last
    /\ UNCHANGED <<p_clients, lock, p_name, p_sock, p_peer, p_conn, p_snap, p_failed,
                   p_budget>>
    /\ PartOnly

\* keepalive: keepalive_ack is sent; when the sendall raises the loop is left.
PKeepalive(c) ==
    /\ PReads(c, "keepalive")
    /\ p_inbox' = [p_inbox EXCEPT ![c] = Tail(@)]
    /\ \E F \in PFailChoices({c}) :
         p_pc' = [p_pc EXCEPT ![c] = IF F = {} THEN "recv" ELSE "remove"]
    /\ p_op' = [kind |-> "keepalive", thread |-> c]
    /\ p_sent' = {}
    /\ UNCHANGED p_last
    /\ UNCHANGED <<p_clients, participants, lock, p_name, p_sock, p_peer, p_conn, p_snap,
                   p_failed, p_ret, p_budget>>
    /\ PartOnly

\* json.loads raises JSONDecodeError: pass, and the loop goes on.
PGarbage(c) ==
    /\ PReads(c, "garbage")
    /\ p_inbox' = [p_inbox EXCEPT ![c] = Tail(@)]
    /\ p_op' = [kind |-> "garbage", thread |-> c]
    /\ p_sent' = {}
    /\ UNCHANGED p_last
    /\ UNCHANGED <<p_clients, participants, lock, p_name, p_sock, p_peer, p_pc, p_conn,
                   p_snap, p_failed, p_ret, p_budget>>
    /\ PartOnly

\* recv returns b"" (the peer closed), raises socket.timeout (nothing arrived
\* for 30 s) or raises OSError (the socket was closed by a prune): the loop
\* is left.
PRecvEnds(c) ==
    /\ p_pc[c] = "recv"
    /\ p_sock[c] = "closed" \/ p_inbox[c] = <<>>
    /\ p_pc' = [p_pc EXCEPT ![c] = "remove"]
    /\ p_op' = PQuiet
    /\ p_sent' = {}
    /\ UNCHANGED p_last
    /\ UNCHANGED <<p_clients, participants, lock, p_name, p_sock, p_peer, p_inbox, p_conn,
                   p_snap, p_failed, p_ret, p_budget>>
    /\ PartOnly

\* _remove_participant(username, client_socket): with self.lock: the socket
\* and the record of the username are deleted; the socket is closed; when
\* either was there, _broadcast_participant_update() follows.
PRemove(c) ==
    /\ p_pc[c] = "remove"
    /\ lock = Unlocked
    /\ p_clients' = p_clients \ {c}
    /\ participants' = [participants EXCEPT ![p_name[c]] = Absent]
    /\ p_sock' = [p_sock EXCEPT ![c] = "closed"]
    /\ IF c \in p_clients \/ participants[p_name[c]] # Absent
       THEN /\ p_pc' = [p_pc EXCEPT ![c] = "bc_snap"]
            /\ p_ret' = [p_ret EXCEPT ![c] = "done"]
       ELSE /\ p_pc' = [p_pc EXCEPT ![c] = "done"]
            /\ UNCHANGED p_ret
    /\ p_op' = [kind |-> "remove", thread |-> c]
    /\ p_sent' = {}
    /\ UNCHANGED p_last
    /\ UNCHANGED <<lock, p_name, p_peer, p_inbox, p_conn, p_snap, p_failed, p_budget>>
    /\ PartOnly

\* -------------------------------------------------------------------- next
PClientStep(c) ==
    \/ PConnect(c)
    \/ \E m \in PRequests : PClientSend(c, m)
    \/ PClientClose(c)

PAcceptStep ==
    \/ \E c \in PConns, u \in PUsers : PRecvName(c, u)
    \/ \E c \in PConns : PRecvNameFails(c)
    \/ PRegister
    \/ PListSnap
    \/ PListSend

PHandlerStep(c) ==
    \/ PStatusUpdate(c)
    \/ PVideoStatus(c)
    \/ PKeepalive(c)
    \/ PGarbage(c)
    \/ PRecvEnds(c)
    \/ PRemove(c)

PBroadcastStep(t) == BcSnap(t) \/ BcSend(t) \/ BcPrune(t)

PartNext ==
    \/ \E c \in PConns : PClientStep(c) \/ PHandlerStep(c)
    \/ PAcceptStep
    \/ \E t \in PThreads : PBroadcastStep(t)

\* ================================================================ ChatRelay
NChConn == 3      \* connections the chat relay accepts in a run
ChMaxReq == 2     \* messages the chat clients write in a run
ChMaxInbox == 2   \* unread messages queued on one chat connection
NChSenders == 1   \* connections 1..NChSenders write messages, the others only listen

ChConns == 1..NChConn
ChNameOf(c) == IF c = 1 THEN "A" ELSE IF c = 2 THEN "B" ELSE "C"

\* A deleted key leaves a hole in the dict's entries; a new key is appended.
Hole == 0

\* What travels: a client's message k, a system notice about user u, or bytes
\* json.loads rejects.  (The timestamp the relay adds is left out.)
ChMsg(t, u, k) == [type |-> t, username |-> u, id |-> k]
JoinNotice(u) == ChMsg("joined", u, 0)
LeaveNotice(u) == ChMsg("left", u, 0)
Garbage == ChMsg("garbage", "-", 0)

\* The keys of self.clients, and len(self.clients).
ChKeys(es) == {es[i] : i \in 1..Len(es)} \ {Hole}
ChRegistered == ChKeys(ch_entries)
ChUsed == Cardinality(ChRegistered)

\* del self.clients[d] for every d of D.
ChDelete(es, D) == [i \in 1..Len(es) |-> IF es[i] \in D THEN Hole ELSE es[i]]

\* `for client_socket in self.clients:` creates an iterator over the dict
\* itself: it remembers its position in the entries and the dict's size, here
\* the number of the keys `start` the dict had when the loop began.  `failed`
\* is the list `disconnected`; `done` records whom the broadcast has reached.
NoIter ==
    [msg |-> Garbage, excl |-> Hole, pos |-> 0, failed |-> {}, done |-> {}, start |-> {},
     ret |-> "-"]
NewIter(es, m, x, r) ==
    [msg |-> m, excl |-> x, pos |-> 1, failed |-> {}, done |-> {}, start |-> ChKeys(es),
     ret |-> r]

\* The next entry the iterator yields: holes are passed over.
ChNextPos(c) ==
    LET live == {i \in ch_it[c].pos..Len(ch_entries) : ch_entries[i] # Hole}
    IN IF live = {} THEN 0 ELSE CHOOSE i \in live : \A j \in live : i <= j

\* dict iteration raises RuntimeError when the size differs from the size the
\* iterator remembers.
ChSizeChanged(c) == Cardinality(ch_it[c].start) # ChUsed

ChatInit ==
    /\ ch_entries = <<>>
    /\ ch_sock = [c \in ChConns |-> "unborn"]
    /\ ch_peer = [c \in ChConns |-> FALSE]
    /\ ch_inbox = [c \in ChConns |-> <<>>]
    /\ ch_pc = [c \in ChConns |-> "unstarted"]
    /\ ch_it = [c \in ChConns |-> NoIter]
    /\ ch_budget = ChMaxReq

\* ----------------------------------------------------------------- clients
\* A client connects and writes its name; _accept_clients starts its handler.
\* (Connections are numbered in the order in which they are accepted.)
ChConnect(c) ==
    /\ ch_pc[c] = "unstarted"
    /\ \A b \in ChConns : b < c => ch_pc[b] # "unstarted"
    /\ ch_sock' = [ch_sock EXCEPT ![c] = "open"]
    /\ ch_peer' = [ch_peer EXCEPT ![c] = TRUE]
    /\ ch_pc' = [ch_pc EXCEPT ![c] = "recv_name"]
    /\ UNCHANGED <<ch_entries, ch_inbox, ch_it, ch_budget>>
    /\ ChatOnly

\* A client whose name has been read writes a message, or bytes that are no JSON.
ChClientSend(c, m) ==
    /\ ch_peer[c]
    /\ ch_pc[c] \in {"bc", "recv"}
    /\ c \in 1..NChSenders
    /\ ch_budget > 0
    /\ Len(ch_inbox[c]) < ChMaxInbox
    /\ m \in {ChMsg("message", ChNameOf(c), ch_budget), Garbage}
    /\ ch_inbox' = [ch_inbox EXCEPT ![c] = Append(@, m)]
    /\ ch_budget' = ch_budget - 1
    /\ UNCHANGED <<ch_entries, ch_sock, ch_peer, ch_pc, ch_it>>
    /\ ChatOnly

ChClientClose(c) ==
    /\ ch_peer[c]
    /\ ch_pc[c] \in {"bc", "recv"}
    /\ ch_peer' = [ch_peer EXCEPT ![c] = FALSE]
    /\ UNCHANGED <<ch_entries, ch_sock, ch_inbox, ch_pc, ch_it, ch_budget>>
    /\ ChatOnly

\* ----------------------------------------------------------- handler thread
\* username = recv(1024).decode(); self.clients[client_socket] = username;
\* self._broadcast(join_msg, None) begins.
ChRecvName(c) ==
    /\ ch_pc[c] = "recv_name"
    /\ ch_entries' = Append(ch_entries, c)
    /\ ch_it' = [ch_it EXCEPT ![c] =
                    NewIter(ch_entries', JoinNotice(ChNameOf(c)), Hole, "loop")]
    /\ ch_pc' = [ch_pc EXCEPT ![c] = "bc"]
    /\ UNCHANGED <<ch_sock, ch_peer, ch_inbox, ch_budget>>
    /\ ChatOnly

\* One turn of the loop of _broadcast: the iterator yields the next socket and,
\* unless it is the excluded one, the message is sent to it; a send that
\* raises adds the socket to `disconnected`.
ChBcSend(c) ==
    /\ ch_pc[c] = "bc"
    /\ ~ChSizeChanged(c)
    /\ ChNextPos(c) # 0
    /\ LET p == ChNextPos(c)
           d == ch_entries[p]
       IN IF d = ch_it[c].excl
          THEN ch_it' = [ch_it EXCEPT ![c].pos = p + 1]
          ELSE \E fails \in {b \in BOOLEAN : /\ ch_sock[d] # "open" => b
                                             /\ b => (ch_sock[d] # "open" \/ ~ch_peer[d])} :
                 IF fails
                 THEN ch_it' = [ch_it EXCEPT ![c].pos = p + 1, ![c].failed = @ \cup {d}]
                 ELSE ch_it' = [ch_it EXCEPT ![c].pos = p + 1, ![c].done = @ \cup {d}]
    /\ UNCHANGED <<ch_entries, ch_sock, ch_peer, ch_inbox, ch_pc, ch_budget>>
    /\ ChatOnly

\* The dict changed size since the loop began: the `for` statement raises
\* RuntimeError out of _broadcast.  In the try block of _handle_client it is
\* caught and the finally block runs; raised by the leave broadcast inside the
\* finally block it ends the thread before client_socket.close().
ChBcRaises(c) ==
    /\ ch_pc[c] = "bc"
    /\ ChSizeChanged(c)
    /\ ch_pc' = [ch_pc EXCEPT ![c] = IF ch_it[c].ret = "leave" THEN "done" ELSE "finally"]
    /\ ch_sock' = [ch_sock EXCEPT ![c] = IF ch_it[c].ret = "leave" THEN "closed" ELSE @]
    /\ ch_peer' = [ch_peer EXCEPT ![c] = IF ch_it[c].ret = "leave" THEN FALSE ELSE @]
    /\ ch_it' = [ch_it EXCEPT ![c] = NoIter]
    /\ ch_inbox' = [ch_inbox EXCEPT ![c] = <<>>]
    /\ UNCHANGED <<ch_entries, ch_budget>>
    /\ ChatOnly

\* The loop is exhausted: every socket of `disconnected` that is still a key
\* is deleted and closed.  Then the caller goes on: back to recv, or, after
\* the leave notice, client_socket.close() and the end of the thread.
ChBcEnd(c) ==
    /\ ch_pc[c] = "bc"
    /\ ~ChSizeChanged(c)
    /\ ChNextPos(c) = 0
    /\ LET F == ch_it[c].failed \cap ChRegistered
           last == ch_it[c].ret = "leave"
       IN /\ ch_entries' = ChDelete(ch_entries, F)
          /\ ch_sock' = [d \in ChConns |->
                            IF d \in F \/ (last /\ d = c) THEN "closed" ELSE ch_sock[d]]
          /\ ch_peer' = [ch_peer EXCEPT ![c] = IF last THEN FALSE ELSE @]
          /\ ch_pc' = [ch_pc EXCEPT ![c] = IF last THEN "done" ELSE "recv"]
    /\ ch_it' = [ch_it EXCEPT ![c] = NoIter]
    /\ UNCHANGED <<ch_inbox, ch_budget>>
    /\ ChatOnly

\* data = client_socket.recv(MAX_MESSAGE_LENGTH) returns everything that has
\* arrived.  One message: json.loads succeeds and _broadcast(message,
\* client_socket) begins.
ChRecvMessage(c) ==
    /\ ch_pc[c] = "recv"
    /\ ch_sock[c] = "open"
    /\ Len(ch_inbox[c]) = 1
    /\ Head(ch_inbox[c]).type = "message"
    /\ ch_inbox' = [ch_inbox EXCEPT ![c] = <<>>]
    /\ ch_it' = [ch_it EXCEPT ![c] = NewIter(ch_entries, Head(ch_inbox[c]), c, "loop")]
    /\ ch_pc' = [ch_pc EXCEPT ![c] = "bc"]
    /\ UNCHANGED <<ch_entries, ch_sock, ch_peer, ch_budget>>
    /\ ChatOnly

\* The bytes received are no single JSON document (two messages that arrived
\* together, or garbage): json.loads raises and the finally block runs.
ChRecvUndecodable(c) ==
    /\ ch_pc[c] = "recv"
    /\ ch_sock[c] = "open"
    /\ ch_inbox[c] # <<>>
    /\ Len(ch_inbox[c]) > 1 \/ Head(ch_inbox[c]).type # "message"
    /\ ch_inbox' = [ch_inbox EXCEPT ![c] = <<>>]
    /\ ch_pc' = [ch_pc EXCEPT ![c] = "finally"]
    /\ UNCHANGED <<ch_entries, ch_sock, ch_peer, ch_it, ch_budget>>
    /\ ChatOnly

\* recv returns b"" (the peer closed) or raises (a broadcast on another
\* thread closed the socket): the finally block runs.  What was not read is
\* never read.
ChRecvEnds(c) ==
    /\ ch_pc[c] = "recv"
    /\ ch_sock[c] = "closed" \/ (~ch_peer[c] /\ ch_inbox[c] = <<>>)
    /\ ch_pc' = [ch_pc EXCEPT ![c] = "finally"]
    /\ ch_inbox' = [ch_inbox EXCEPT ![c] = <<>>]
    /\ UNCHANGED <<ch_entries, ch_sock, ch_peer, ch_it, ch_budget>>
    /\ ChatOnly

\* finally: if client_socket in self.clients: del self.clients[client_socket]
\* and self._broadcast(leave_msg, None) begins; otherwise client_socket.close().
ChFinally(c) ==
    /\ ch_pc[c] = "finally"
    /\ IF c \in ChRegistered
       THEN /\ ch_entries' = ChDelete(ch_entries, {c})
            /\ ch_it' = [ch_it EXCEPT ![c] =
                            NewIter(ch_entries', LeaveNotice(ChNameOf(c)), Hole, "leave")]
            /\ ch_pc' = [ch_pc EXCEPT ![c] = "bc"]
            /\ UNCHANGED <<ch_sock, ch_peer>>
       ELSE /\ ch_sock' = [ch_sock EXCEPT ![c] = "closed"]
            /\ ch_peer' = [ch_peer EXCEPT ![c] = FALSE]
            /\ ch_pc' = [ch_pc EXCEPT ![c] = "done"]
            /\ UNCHANGED <<ch_entries, ch_it>>
    /\ UNCHANGED <<ch_inbox, ch_budget>>
    /\ ChatOnly

\* -------------------------------------------------------------------- next
ChClientStep(c) ==
    \/ ChConnect(c)
    \/ \E m \in {ChMsg("message", ChNameOf(c), ch_budget), Garbage} : ChClientSend(c, m)
    \/ ChClientClose(c)

ChHandlerStep(c) ==
    \/ ChRecvName(c)
    \/ ChBcSend(c)
    \/ ChBcRaises(c)
    \/ ChBcEnd(c)
    \/ ChRecvMessage(c)
    \/ ChRecvUndecodable(c)
    \/ ChRecvEnds(c)
    \/ ChFinally(c)

ChatNext == \E c \in ChConns : ChClientStep(c) \/ ChHandlerStep(c)

\* ======================================================= FileCatalogService
NFConn == 3       \* connections the file server accepts in a run
FMaxReq == 3      \* requests the file clients write in a run
NFSenders == 2    \* connections 1..NFSenders upload, the others only list

\* FILE_TRANSFER_CONFIG['MAX_FILE_SIZE'], scaled down: sizes are counted in chunks.
MAX_FILE_SIZE == 2

FConns == 1..NFConn
FNames == {"a"}

\* The size of a filename that is no key of the catalog, no file on the disk.
NoFile == -1
NoFiles == [n \in FNames |-> NoFile]

\* The requests a client writes; NoCmd: nothing in flight.
NoCmd == [command |-> "-", filename |-> "-", filesize |-> 0]
ListCmd == [command |-> "LIST", filename |-> "-", filesize |-> 0]
UploadCmd(n, z) == [command |-> "UPLOAD", filename |-> n, filesize |-> z]
DownloadCmd(n) == [command |-> "DOWNLOAD", filename |-> n, filesize |-> 0]
FCommands(c) ==
    {ListCmd} \cup
    (IF c \in 1..NFSenders
     THEN {UploadCmd(n, z) : n \in FNames, z \in 1..(MAX_FILE_SIZE + 1)}
     ELSE {DownloadCmd(n) : n \in FNames})

\* What a handler writes to its own socket.
FReply(s, files) == [status |-> s, files |-> files]

\* The sizes a DOWNLOAD reply carries: z for the file asked for.
FSizeOf(n, z) == [x \in FNames |-> IF x = n THEN z ELSE NoFile]

\* `for client_socket in self.clients:` iterates the list itself by index:
\* an element removed before the index moves the later ones down past it.
\* `files` is the catalog serialised before the loop, `failed` is the list
\* `disconnected`, `start` the list's elements when the loop began and
\* `done` whom the update has been sent to.
FNoIter == [pos |-> 0, files |-> NoFiles, start |-> {}, done |-> {}, failed |-> {}]
FNewIter(files) ==
    [pos |-> 1, files |-> files, start |-> {f_clients[i] : i \in 1..Len(f_clients)},
     done |-> {}, failed |-> {}]

\* self.clients.remove(d) for every d of D that is in the list.
FRemove(cs, D) == SelectSeq(cs, LAMBDA d : d \notin D)

\* The outcomes of client_socket.send on the socket of d: it may raise only
\* when the peer has gone.
FSendFails(d) == IF f_peer[d] THEN {FALSE} ELSE {FALSE, TRUE}

\* if filesize > FILE_TRANSFER_CONFIG['MAX_FILE_SIZE']
TooLarge_Never(z) == FALSE
TooLarge(z) == z > MAX_FILE_SIZE

FileInit ==
    /\ f_clients = <<>>
    /\ available_files = NoFiles
    /\ disk = NoFiles
    /\ f_peer = [c \in FConns |-> FALSE]
    /\ f_cmd = [c \in FConns |-> NoCmd]
    /\ f_data = [c \in FConns |-> 0]
    /\ f_pc = [c \in FConns |-> "unstarted"]
    /\ f_req = [c \in FConns |-> NoCmd]
    /\ f_recvd = [c \in FConns |-> 0]
    /\ f_it = [c \in FConns |-> FNoIter]
    /\ f_reply = [c \in FConns |-> FReply("-", NoFiles)]
    /\ f_budget = FMaxReq

\* ----------------------------------------------------------------- clients
\* _accept_clients: the socket is appended to self.clients and its handler
\* thread started.  (Connections are numbered in the order of their arrival.)
FConnect(c) ==
    /\ f_pc[c] = "unstarted"
    /\ \A b \in FConns : b < c => f_pc[b] # "unstarted"
    /\ f_clients' = Append(f_clients, c)
    /\ f_peer' = [f_peer EXCEPT ![c] = TRUE]
    /\ f_pc' = [f_pc EXCEPT ![c] = "recv"]
    /\ UNCHANGED <<available_files, disk, f_cmd, f_data, f_req, f_recvd, f_it, f_reply,
                   f_budget>>
    /\ FileOnly

\* A client writes a request once the previous one has been answered and the
\* answer read.
FClientSend(c, r) ==
    /\ f_peer[c]
    /\ f_pc[c] = "recv"
    /\ f_cmd[c] = NoCmd
    /\ f_budget > 0
    /\ r \in FCommands(c)
    /\ f_cmd' = [f_cmd EXCEPT ![c] = r]
    /\ f_reply' = [f_reply EXCEPT ![c] = FReply("-", NoFiles)]
    /\ f_budget' = f_budget - 1
    /\ UNCHANGED <<f_clients, available_files, disk, f_peer, f_data, f_pc, f_req, f_recvd,
                   f_it>>
    /\ FileOnly

\* The uploading client, told that the server is ready, writes the next chunk
\* of the file; it never writes more than it declared.
FClientData(c) ==
    /\ f_peer[c]
    /\ f_pc[c] = "up_data"
    /\ f_recvd[c] + f_data[c] < f_req[c].filesize
    /\ f_data' = [f_data EXCEPT ![c] = @ + 1]
    /\ UNCHANGED <<f_clients, available_files, disk, f_peer, f_cmd, f_pc, f_req, f_recvd,
                   f_it, f_reply, f_budget>>
    /\ FileOnly

FClientClose(c) ==
    /\ f_peer[c]
    /\ f_pc[c] \notin {"unstarted", "done"}
    /\ f_peer' = [f_peer EXCEPT ![c] = FALSE]
    /\ UNCHANGED <<f_clients, available_files, disk, f_cmd, f_data, f_pc, f_req, f_recvd,
                   f_it, f_reply, f_budget>>
    /\ FileOnly

\* ----------------------------------------------------------- handler thread
\* command == 'LIST': _send_file_list writes the catalog; a send that raises
\* is caught there.
FList(c) ==
    /\ f_pc[c] = "recv"
    /\ f_cmd[c].command = "LIST"
    /\ f_cmd' = [f_cmd EXCEPT ![c] = NoCmd]
    /\ \E fails \in FSendFails(c) :
         f_reply' = [f_reply EXCEPT ![c] =
                        IF fails THEN @ ELSE FReply("list", available_files)]
    /\ UNCHANGED <<f_clients, available_files, disk, f_peer, f_data, f_pc, f_req, f_recvd,
                   f_it, f_budget>>
    /\ FileOnly

\* command == 'UPLOAD' with a size over the limit: the error reply, return.
FUploadRefused(c) ==
    /\ f_pc[c] = "recv"
    /\ f_cmd[c].command = "UPLOAD"
    /\ TooLarge(f_cmd[c].filesize)
    /\ f_cmd' = [f_cmd EXCEPT ![c] = NoCmd]
    /\ \E fails \in FSendFails(c) :
         f_reply' = [f_reply EXCEPT ![c] = IF fails THEN @ ELSE FReply("error", NoFiles)]
    /\ UNCHANGED <<f_clients, available_files, disk, f_peer, f_data, f_pc, f_req, f_recvd,
                   f_it, f_budget>>
    /\ FileOnly

\* command == 'UPLOAD' within the limit: the ready reply, then
\* open(filepath, 'wb') creates or truncates the file.  A ready reply that
\* cannot be sent raises into the except clause, which returns.
FUploadBegin(c) ==
    /\ f_pc[c] = "recv"
    /\ f_cmd[c].command = "UPLOAD"
    /\ ~TooLarge(f_cmd[c].filesize)
    /\ f_cmd' = [f_cmd EXCEPT ![c] = NoCmd]
    /\ \E fails \in FSendFails(c) :
         IF fails
         THEN UNCHANGED <<disk, f_pc, f_req, f_recvd, f_reply>>
         ELSE /\ f_reply' = [f_reply EXCEPT ![c] = FReply("ready", NoFiles)]
              /\ disk' = [disk EXCEPT ![f_cmd[c].filename] = 0]
              /\ f_req' = [f_req EXCEPT ![c] = f_cmd[c]]
              /\ f_recvd' = [f_recvd EXCEPT ![c] = 0]
              /\ f_pc' = [f_pc EXCEPT ![c] = "up_data"]
    /\ UNCHANGED <<f_clients, available_files, f_peer, f_data, f_it, f_budget>>
    /\ FileOnly

\* while received < filesize: chunk = recv(...); f.write(chunk).  The handler
\* writes at its own offset, so the file is as long as the furthest write.
FUploadRecv(c) ==
    /\ f_pc[c] = "up_data"
    /\ f_data[c] > 0
    /\ LET got == f_recvd[c] + f_data[c]
           n == f_req[c].filename
       IN /\ f_recvd' = [f_recvd EXCEPT ![c] = got]
          /\ disk' = [disk EXCEPT ![n] = IF got > @ THEN got ELSE @]
          /\ f_pc' = [f_pc EXCEPT ![c] = IF got < f_req[c].filesize THEN "up_data" ELSE "up_done"]
    /\ f_data' = [f_data EXCEPT ![c] = 0]
    /\ UNCHANGED <<f_clients, available_files, f_peer, f_cmd, f_req, f_it, f_reply, f_budget>>
    /\ FileOnly

\* if not chunk: break -- the client has gone before the declared size arrived.
FUploadEof(c) ==
    /\ f_pc[c] = "up_data"
    /\ f_data[c] = 0
    /\ ~f_peer[c]
    /\ f_pc' = [f_pc EXCEPT ![c] = "up_done"]
    /\ UNCHANGED <<f_clients, available_files, disk, f_peer, f_cmd, f_data, f_req, f_recvd,
                   f_it, f_reply, f_budget>>
    /\ FileOnly

\* After the loop: self.available_files[filename] = {'size': filesize, ...},
\* the success reply and _broadcast_file_list() begins.  A success reply that
\* cannot be sent raises into the except clause, which returns.
FUploadDone(c) ==
    /\ f_pc[c] = "up_done"
    /\ available_files' = [available_files EXCEPT ![f_req[c].filename] = f_req[c].filesize]
    /\ \E fails \in FSendFails(c) :
         IF fails
         THEN /\ f_pc' = [f_pc EXCEPT ![c] = "recv"]
              /\ UNCHANGED <<f_reply, f_it>>
         ELSE /\ f_reply' = [f_reply EXCEPT ![c] = FReply("success", NoFiles)]
              /\ f_it' = [f_it EXCEPT ![c] = FNewIter(available_files')]
              /\ f_pc' = [f_pc EXCEPT ![c] = "bc"]
    /\ f_req' = [f_req EXCEPT ![c] = NoCmd]
    /\ f_recvd' = [f_recvd EXCEPT ![c] = 0]
    /\ UNCHANGED <<f_clients, disk, f_peer, f_cmd, f_data, f_budget>>
    /\ FileOnly

\* command == 'DOWNLOAD': os.path.exists(filepath) is tested; a file that is
\* not there is answered with an error, one that is there with ready and
\* os.path.getsize(filepath), and the handler waits for the client's signal.
\* A reply that cannot be sent raises into the except clause, which returns.
FDownload(c) ==
    /\ f_pc[c] = "recv"
    /\ f_cmd[c].command = "DOWNLOAD"
    /\ f_cmd' = [f_cmd EXCEPT ![c] = NoCmd]
    /\ LET n == f_cmd[c].filename
       IN \E fails \in FSendFails(c) :
            IF fails
            THEN UNCHANGED <<f_pc, f_req, f_reply>>
            ELSE IF disk[n] = NoFile
                 THEN /\ f_reply' = [f_reply EXCEPT ![c] = FReply("error", NoFiles)]
                      /\ UNCHANGED <<f_pc, f_req>>
                 ELSE /\ f_reply' = [f_reply EXCEPT ![c] =
                                        FReply("ready", FSizeOf(n, disk[n]))]
                      /\ f_req' = [f_req EXCEPT ![c] =
                                      [command |-> "DOWNLOAD", filename |-> n,
                                       filesize |-> disk[n]]]
                      /\ f_pc' = [f_pc EXCEPT ![c] = "dl_send"]
    /\ UNCHANGED <<f_clients, available_files, disk, f_peer, f_data, f_recvd, f_it, f_budget>>
    /\ FileOnly

\* client_socket.recv(1024) returns; the file is opened and read in chunks
\* which are sent until `filesize` bytes went out or the file ended.  The
\* reply holds the bytes served.  A send that raises ends the handler's turn.
FDownloadSend(c) ==
    /\ f_pc[c] = "dl_send"
    /\ LET n == f_req[c].filename
           served == IF disk[n] < f_req[c].filesize THEN disk[n] ELSE f_req[c].filesize
       IN \E fails \in FSendFails(c) :
            f_reply' = [f_reply EXCEPT ![c] =
                           IF fails THEN @ ELSE FReply("data", FSizeOf(n, served))]
    /\ f_req' = [f_req EXCEPT ![c] = NoCmd]
    /\ f_pc' = [f_pc EXCEPT ![c] = "recv"]
    /\ UNCHANGED <<f_clients, available_files, disk, f_peer, f_cmd, f_data, f_recvd, f_it,
                   f_budget>>
    /\ FileOnly

\* One turn of the loop of _broadcast_file_list: the update is sent to the
\* socket at the iterator's index; a send that raises adds it to `disconnected`.
FBcSend(c) ==
    /\ f_pc[c] = "bc"
    /\ f_it[c].pos <= Len(f_clients)
    /\ LET d == f_clients[f_it[c].pos]
       IN \E fails \in FSendFails(d) :
            IF fails
            THEN f_it' = [f_it EXCEPT ![c].pos = @ + 1, ![c].failed = @ \cup {d}]
            ELSE f_it' = [f_it EXCEPT ![c].pos = @ + 1, ![c].done = @ \cup {d}]
    /\ UNCHANGED <<f_clients, available_files, disk, f_peer, f_cmd, f_data, f_pc, f_req,
                   f_recvd, f_reply, f_budget>>
    /\ FileOnly

\* The loop is exhausted: the sockets of `disconnected` still in the list are
\* removed from it, and the handler goes back to recv.
FBcEnd(c) ==
    /\ f_pc[c] = "bc"
    /\ f_it[c].pos > Len(f_clients)
    /\ f_clients' = FRemove(f_clients, f_it[c].failed)
    /\ f_it' = [f_it EXCEPT ![c] = FNoIter]
    /\ f_pc' = [f_pc EXCEPT ![c] = "recv"]
    /\ UNCHANGED <<available_files, disk, f_peer, f_cmd, f_data, f_req, f_recvd, f_reply,
                   f_budget>>
    /\ FileOnly

\* recv returns b"": the finally block removes the socket from the list and
\* closes it.
FRecvEnds(c) ==
    /\ f_pc[c] = "recv"
    /\ f_cmd[c] = NoCmd
    /\ ~f_peer[c]
    /\ f_clients' = FRemove(f_clients, {c})
    /\ f_pc' = [f_pc EXCEPT ![c] = "done"]
    /\ f_reply' = [f_reply EXCEPT ![c] = FReply("-", NoFiles)]
    /\ UNCHANGED <<available_files, disk, f_peer, f_cmd, f_data, f_req, f_recvd, f_it,
                   f_budget>>
    /\ FileOnly

\* -------------------------------------------------------------------- next
FClientStep(c) ==
    \/ FConnect(c)
    \/ \E r \in FCommands(c) : FClientSend(c, r)
    \/ FClientData(c)
    \/ FClientClose(c)

FHandlerStep(c) ==
    \/ FList(c)
    \/ FUploadRefused(c)
    \/ FUploadBegin(c)
    \/ FUploadRecv(c)
    \/ FUploadEof(c)
    \/ FUploadDone(c)
    \/ FDownload(c)
    \/ FDownloadSend(c)
    \/ FBcSend(c)
    \/ FBcEnd(c)
    \/ FRecvEnds(c)

FileNext == \E c \in FConns : FClientStep(c) \/ FHandlerStep(c)

\* ================================================== VideoRelay and AudioMixer
\* The two UDP services share their registration, receive loop and cleanup
\* loop; they differ in what is sent on a data packet.  One of them runs.
NAddr == 3        \* client addresses
UMaxPkt == 5      \* datagrams the clients send in a run
UNSenders == 2    \* addresses 1..UNSenders send data, the others only register
UMaxFail == 1     \* sendto calls that raise in a run
MaxTime == 5      \* the clock stops here

\* CLIENT_TIMEOUT (12 s) and time.sleep(3), in units of the sweep interval.
CLIENT_TIMEOUT == 4
SWEEP_INTERVAL == 1

UAddrs == 1..NAddr

\* A datagram: REGISTER|<username>, or data (video: a frame chunk, audio: a
\* chunk of 16-bit samples), possibly empty.
UPackets(a) ==
    {[from |-> a, reg |-> TRUE, body |-> <<>>]} \cup
    {[from |-> a, reg |-> FALSE, body |-> b] :
        b \in IF a \in 1..UNSenders THEN {<<>>, <<32767>>, <<32767, -32768>>} ELSE {}}

\* d[a] = v and d.pop(a, None) for every a of D, for a dict d.
UPut(d, a, v) == [x \in DOMAIN d \cup {a} |-> IF x = a THEN v ELSE d[x]]
UPop(d, D) == [x \in DOMAIN d \ D |-> d[x]]

\* One sample of the mix: the sum of n contributors divided by n, the soft
\* limiter tanh(x / 32768) * 32767, the clip to 16 bits and astype(int16),
\* which truncates towards zero.  tanh is computed in fixed point (10 bits
\* after the point) as y (15 + y^2) / (15 + 6 y^2), within 0.002 of tanh for
\* |y| <= 1.
MixSample_Raw(sum, n) == sum
MixSample(sum, n) ==
    LET mag == (IF sum < 0 THEN 0 - sum ELSE sum) \div n
        y == mag \div 32
        ysq == (y * y) \div 1024
        t == (y * (15 * 1024 + ysq)) \div (15 * 1024 + 6 * ysq)
        v == (t * 32767) \div 1024
        clipped == IF v > 32767 THEN 32767 ELSE v
    IN IF sum < 0 THEN 0 - clipped ELSE clipped

\* _build_mix_for_target: the non-empty latest chunks of everyone but the
\* target, trimmed to the shortest and mixed; <<>> stands for None.
UMixFor(target) ==
    LET C == {a \in DOMAIN u_chunks : a # target /\ u_chunks[a] # <<>>}
        RECURSIVE Sum(_, _)
        Sum(S, i) == IF S = {} THEN 0
                     ELSE LET a == CHOOSE x \in S : TRUE
                          IN u_chunks[a][i] + Sum(S \ {a}, i)
    IN IF C = {} THEN <<>>
       ELSE LET n == CHOOSE k \in {Len(u_chunks[a]) : a \in C} :
                        \A a \in C : k <= Len(u_chunks[a])
            IN [i \in 1..n |-> MixSample(Sum(C, i), Cardinality(C))]

\* No datagram is being processed; the cleanup thread sleeps.
UNoPkt == [from |-> 1, reg |-> FALSE, body |-> <<>>]
UAsleep == [pc |-> "sleep", now |-> 0, size |-> 0, stale |-> {}]

\* list(self.clients.keys()) without the sender (`if client_address == address: continue`).
UTargets_All(a) == DOMAIN u_clients
UTargets(a) == DOMAIN u_clients \ {a}

UdpInit ==
    /\ u_kind = "none"
    /\ u_now = 0
    /\ u_clients = << >>
    /\ u_last = << >>
    /\ u_chunks = << >>
    /\ u_pkt = UNoPkt
    /\ u_pc = "idle"
    /\ u_todo = {}
    /\ u_failed = {}
    /\ u_sent = {}
    /\ u_sweep = UAsleep
    /\ u_next = SWEEP_INTERVAL
    /\ u_budget = UMaxPkt
    /\ u_fails = UMaxFail

\* start(): the socket is bound, the receive loop and the cleanup loop start.
UStart(k) ==
    /\ u_kind = "none"
    /\ u_kind' = k
    /\ UNCHANGED <<u_now, u_clients, u_last, u_chunks, u_pkt, u_pc, u_todo, u_failed,
                   u_sent, u_sweep, u_next, u_budget, u_fails>>
    /\ UdpOnly

\* Time passes: a whole interval goes by only while the receive loop waits
\* in recvfrom and the cleanup thread sleeps (it does not oversleep); their
\* steps take no time.
UTick ==
    /\ u_kind # "none"
    /\ u_pc = "idle"
    /\ u_sweep.pc = "dead" \/ (u_sweep.pc = "sleep" /\ u_now < u_next)
    /\ u_now < MaxTime
    /\ u_now' = u_now + 1
    /\ UNCHANGED <<u_kind, u_clients, u_last, u_chunks, u_pkt, u_pc, u_todo, u_failed,
                   u_sent, u_sweep, u_next, u_budget, u_fails>>
    /\ UdpOnly

\* recvfrom returns a datagram (the first one comes from address 1).  Empty
\* data is skipped.  A REGISTER packet
\* sets self.clients[address] (the video relay echoes a repeated
\* registration to its sender).  Data of an unknown address is skipped.
URecv(p) ==
    /\ u_kind # "none"
    /\ u_pc = "idle"
    /\ u_budget > 0
    /\ \A b \in UAddrs : b < p.from => b \in DOMAIN u_last \/ u_budget < UMaxPkt
    /\ u_budget' = u_budget - 1
    /\ u_pkt' = p
    /\ LET a == p.from
           known == a \in DOMAIN u_clients
       IN IF p.reg
          THEN /\ u_sent' = IF u_kind = "video" /\ known /\ u_clients[a] = p.body
                            THEN {[to |-> a, data |-> p.body, echo |-> TRUE]} ELSE {}
               /\ u_clients' = UPut(u_clients, a, p.body)
               /\ u_pc' = "store"
          ELSE /\ u_sent' = {}
               /\ u_clients' = u_clients
               /\ u_pc' = IF p.body # <<>> /\ known THEN "store" ELSE "skip"
    /\ UNCHANGED <<u_kind, u_now, u_last, u_chunks, u_todo, u_failed, u_sweep, u_next,
                   u_fails>>
    /\ UdpOnly

\* self.last_seen[address] = time.time(); the audio mixer also keeps the data
\* as the sender's latest chunk (for a registration: setdefault(address, b"")).
\* For data, list(self.clients.keys()) is copied and the loop over it begins.
UStore ==
    /\ u_pc = "store"
    /\ LET a == u_pkt.from
       IN /\ u_last' = UPut(u_last, a, u_now)
          /\ u_chunks' = IF u_kind # "audio" THEN u_chunks
                         ELSE IF u_pkt.reg /\ a \in DOMAIN u_chunks THEN u_chunks
                         ELSE UPut(u_chunks, a, u_pkt.body)
          /\ u_todo' = IF u_pkt.reg THEN {} ELSE UTargets(a)
          /\ u_pc' = IF u_pkt.reg THEN "skip" ELSE "fwd"
    /\ u_failed' = {}
    /\ UNCHANGED <<u_kind, u_now, u_clients, u_pkt, u_sent, u_sweep, u_next, u_budget,
                   u_fails>>
    /\ UdpOnly

\* One turn of the loop: the video relay sends the data, the audio mixer the
\* mix built for the target, if there is one.  A sendto that raises adds the
\* target to `disconnected`.
UForward ==
    /\ u_pc = "fwd"
    /\ u_todo # {}
    /\ LET t == CHOOSE x \in u_todo : \A z \in u_todo : x <= z
           out == IF u_kind = "video" THEN u_pkt.body ELSE UMixFor(t)
       IN /\ u_todo' = u_todo \ {t}
          /\ \E fails \in {b \in BOOLEAN : b => (u_fails > 0 /\ out # <<>>)} :
               IF fails
               THEN /\ u_failed' = u_failed \cup {t}
                    /\ u_fails' = u_fails - 1
                    /\ u_sent' = u_sent
               ELSE /\ u_sent' = IF out = <<>> THEN u_sent
                                 ELSE u_sent \cup {[to |-> t, data |-> out, echo |-> FALSE]}
                    /\ UNCHANGED <<u_failed, u_fails>>
    /\ UNCHANGED <<u_kind, u_now, u_clients, u_last, u_chunks, u_pkt, u_pc, u_sweep,
                   u_next, u_budget>>
    /\ UdpOnly

\* The cleanup thread pops its stale addresses while _build_mix_for_target
\* iterates self.latest_chunks.items(): the iteration raises RuntimeError,
\* which the loop takes for a send failure of the target.
UMixRaises ==
    /\ u_kind = "audio"
    /\ u_pc = "fwd"
    /\ u_todo # {}
    /\ u_sweep.pc = "pop"
    /\ u_sweep.stale \cap DOMAIN u_chunks # {}
    /\ LET t == CHOOSE x \in u_todo : \A z \in u_todo : x <= z
       IN /\ u_todo' = u_todo \ {t}
          /\ u_failed' = u_failed \cup {t}
    /\ u_clients' = UPop(u_clients, u_sweep.stale)
    /\ u_last' = UPop(u_last, u_sweep.stale)
    /\ u_chunks' = UPop(u_chunks, u_sweep.stale)
    /\ u_sweep' = UAsleep
    /\ u_next' = u_now + SWEEP_INTERVAL
    /\ UNCHANGED <<u_kind, u_now, u_pkt, u_pc, u_sent, u_budget, u_fails>>
    /\ UdpOnly

\* The body of the receive loop is over: by `continue`, or after the loop
\* over the addresses, when the addresses of `disconnected` are popped.
UForwardEnd ==
    /\ u_pc = "skip" \/ (u_pc = "fwd" /\ u_todo = {})
    /\ u_clients' = UPop(u_clients, u_failed)
    /\ u_last' = UPop(u_last, u_failed)
    /\ u_chunks' = UPop(u_chunks, u_failed)
    /\ u_failed' = {}
    /\ u_pkt' = UNoPkt
    /\ u_sent' = {}
    /\ u_pc' = "idle"
    /\ UNCHANGED <<u_kind, u_now, u_todo, u_sweep, u_next, u_budget, u_fails>>
    /\ UdpOnly

\* _cleanup_loop: time.sleep(3) is over, now = time.time(), and the list
\* comprehension starts to iterate self.last_seen.items().
USweepBegin ==
    /\ u_kind # "none"
    /\ u_sweep.pc = "sleep"
    /\ u_now >= u_next
    /\ u_sweep' = [pc |-> "scan", now |-> u_now, size |-> Cardinality(DOMAIN u_last),
                   stale |-> {}]
    /\ UNCHANGED <<u_kind, u_now, u_clients, u_last, u_chunks, u_pkt, u_pc, u_todo,
                   u_failed, u_sent, u_next, u_budget, u_fails>>
    /\ UdpOnly

\* The comprehension ends: stale = the addresses with now - last > CLIENT_TIMEOUT.
USweepScan ==
    /\ u_sweep.pc = "scan"
    /\ Cardinality(DOMAIN u_last) = u_sweep.size
    /\ u_sweep' = [u_sweep EXCEPT
                     !.pc = "pop",
                     !.stale = {a \in DOMAIN u_last : u_sweep.now - u_last[a] > CLIENT_TIMEOUT}]
    /\ UNCHANGED <<u_kind, u_now, u_clients, u_last, u_chunks, u_pkt, u_pc, u_todo,
                   u_failed, u_sent, u_next, u_budget, u_fails>>
    /\ UdpOnly

\* The receive loop has added or removed a key of self.last_seen during the
\* comprehension: it raises RuntimeError, which nothing catches, and the
\* cleanup thread ends.
USweepDies ==
    /\ u_sweep.pc = "scan"
    /\ Cardinality(DOMAIN u_last) # u_sweep.size
    /\ u_sweep' = [UAsleep EXCEPT !.pc = "dead"]
    /\ UNCHANGED <<u_kind, u_now, u_clients, u_last, u_chunks, u_pkt, u_pc, u_todo,
                   u_failed, u_sent, u_next, u_budget, u_fails>>
    /\ UdpOnly

\* for addr in stale: the address is popped from every dict; then the thread
\* sleeps again.
USweepPop ==
    /\ u_sweep.pc = "pop"
    /\ u_clients' = UPop(u_clients, u_sweep.stale)
    /\ u_last' = UPop(u_last, u_sweep.stale)
    /\ u_chunks' = UPop(u_chunks, u_sweep.stale)
    /\ u_sweep' = UAsleep
    /\ u_next' = u_now + SWEEP_INTERVAL
    /\ UNCHANGED <<u_kind, u_now, u_pkt, u_pc, u_todo, u_failed, u_sent, u_budget,
                   u_fails>>
    /\ UdpOnly

UdpNext ==
    \/ \E k \in {"video", "audio"} : UStart(k)
    \/ UTick
    \/ \E a \in UAddrs : \E p \in UPackets(a) : URecv(p)
    \/ UStore
    \/ UForward
    \/ UMixRaises
    \/ UForwardEnd
    \/ USweepBegin
    \/ USweepScan
    \/ USweepDies
    \/ USweepPop

\* ------------------------------------------------- video client: reassembly
\* client_modules/video_module.py.  One VideoClient sends frames, the relay
\* passes its datagrams unchanged to a second VideoClient, which reassembles
\* them.  Bytes are symbols: "|" is the separator, "0".."9" the digits, "FRAME"
\* the five bytes of FRAME_HEADER.  Time is counted in units of half a second.

VMaxLen == 3        \* longest frame, in bytes
VMaxFrames == 2     \* _send_frame calls per run
VMaxNoise == 1      \* datagrams lost, duplicated or of another origin per run
VMaxTime == 3       \* the run's length

\* MAX_DATAGRAM_SIZE = 8192 and the modulus 1_000_000 of the frame counter,
\* scaled down; FRAME_EXPIRY_SECONDS = 1.0 and settimeout(1.0) in time units.
MAX_DATAGRAM_SIZE == 2
FRAME_ID_MODULUS == 2
FRAME_EXPIRY_SECONDS == 2
SOCKET_TIMEOUT == 2

\* The receiver's own username, and the usernames the sender may have: the
\* login dialog takes any text that is not blank.
VSelf == <<"b">>
VNames == {<<"a">>, <<"a", "|", "1">>}

\* The frames handed to _send_frame: one of each length, with a separator
\* among the bytes.
VFrameBytes == {SubSeq(<<"x", "|", "y", "x", "|", "y">>, 1, n) : n \in 0..VMaxLen}

\* f"{n}" and int(bytes) for numbers written with the digits 0..9; int raises
\* ValueError for everything else.
VDigits == <<"0", "1", "2", "3", "4", "5", "6", "7", "8", "9">>
Str(n) == VDigits[n + 1]
IsInt(f) == Len(f) > 0 /\ \A i \in 1..Len(f) : \E d \in 1..10 : VDigits[d] = f[i]
ToInt(f) ==
    LET RECURSIVE Value(_)
        Value(n) == IF n = 0 THEN 0
                    ELSE 10 * Value(n - 1) + (CHOOSE d \in 0..9 : VDigits[d + 1] = f[n])
    IN Value(Len(f))

\* _send_frame: the number of chunks of a frame, chunk i of it, and the
\* datagram that carries it.
TotalChunks(len) ==
    LET n == (len + MAX_DATAGRAM_SIZE - 1) \div MAX_DATAGRAM_SIZE
    IN IF n < 1 THEN 1 ELSE n
Chunk(frame, i) ==
    LET end == (i + 1) * MAX_DATAGRAM_SIZE
    IN SubSeq(frame, i * MAX_DATAGRAM_SIZE + 1, IF end > Len(frame) THEN Len(frame) ELSE end)
Packet(sender, id, i, total, payload) ==
    <<"FRAME", "|">> \o sender \o <<"|", Str(id), "|", Str(i), "|", Str(total), "|">>
        \o payload

\* packet.split(b'|', k): the fields between the first k separators and the
\* rest.
Split(packet, k) ==
    LET RECURSIVE Fields(_, _)
        Fields(t, n) ==
            IF n = 0 \/ \A i \in 1..Len(t) : t[i] # "|" THEN <<t>>
            ELSE LET i == CHOOSE j \in 1..Len(t) :
                              t[j] = "|" /\ \A h \in 1..(j - 1) : t[h] # "|"
                 IN <<SubSeq(t, 1, i - 1)>> \o Fields(SubSeq(t, i + 1, Len(t)), n - 1)
    IN Fields(packet, k)

\* _handle_frame_chunk, lines 215-226: the fields of a datagram; ok is false
\* where the handler returns.
VBad == [ok |-> FALSE, sender |-> <<>>, id |-> 0, idx |-> 0, total |-> 0, payload |-> <<>>]
Parse(packet) ==
    LET parts == Split(packet, 5)
    IN IF Len(parts) # 6 THEN VBad
       ELSE IF ~(IsInt(parts[3]) /\ IsInt(parts[4]) /\ IsInt(parts[5])) THEN VBad
       ELSE [ok |-> TRUE, sender |-> parts[2], id |-> ToInt(parts[3]),
             idx |-> ToInt(parts[4]), total |-> ToInt(parts[5]), payload |-> parts[6]]

\* Lines 243-246: the buffer holds total_chunks entries and none of
\* frame_buffer.get(i), i in range(total_chunks), is None.
Complete_CountOnly(buffer, total) == Cardinality(DOMAIN buffer) = total
Complete(buffer, total) ==
    /\ Cardinality(DOMAIN buffer) = total
    /\ \A i \in 0..(total - 1) : i \in DOMAIN buffer

\* b''.join(ordered_chunks).
Join(buffer, total) ==
    LET RECURSIVE From(_)
        From(i) == IF i >= total THEN <<>>
                   ELSE (IF i \in DOMAIN buffer THEN buffer[i] ELSE <<>>) \o From(i + 1)
    IN From(0)

\* Nothing has been joined yet.
VNoOut == [sender |-> <<>>, id |-> 0, total |-> 0, bytes |-> <<>>, shown |-> FALSE]
VNoFrame == [id |-> 0, bytes |-> <<>>, at |-> -1]

\* _cleanup_stale_frames runs after recvfrom has timed out, and recvfrom was
\* called after `created` was taken: its `now` is read later than the time
\* unit's start, by less than a unit.  Times are doubled to say so.
Stale(created) == (2 * v_now + 1) - 2 * created > 2 * FRAME_EXPIRY_SECONDS

VideoInit ==
    /\ v_name = <<>>
    /\ v_counter = 0
    /\ v_cur = VNoFrame
    /\ v_net = {}
    /\ v_frames = << >>
    /\ v_meta = << >>
    /\ v_out = VNoOut
    /\ v_seen = << >>
    /\ v_born = << >>
    /\ v_now = 0
    /\ v_quiet = 0
    /\ v_left = VMaxFrames
    /\ v_noise = VMaxNoise

\* connect() of the sender: the frame counter starts at 0.
VConnect(n) ==
    /\ v_name = <<>>
    /\ v_name' = n
    /\ v_counter' = 0
    /\ UNCHANGED <<v_cur, v_net, v_frames, v_meta, v_out, v_seen, v_born, v_now, v_quiet,
                   v_left, v_noise>>
    /\ VideoOnly

\* _send_frame(frame): one datagram per chunk; the datagrams of the frame
\* before have arrived or are lost.
VSendFrame(frame) ==
    /\ v_name # <<>>
    /\ v_left > 0
    /\ v_net = {}
    /\ v_counter' = (v_counter + 1) % FRAME_ID_MODULUS
    /\ v_net' = 0..(TotalChunks(Len(frame)) - 1)
    /\ v_cur' = [id |-> v_counter, bytes |-> frame, at |-> v_now]
    /\ v_left' = v_left - 1
    /\ UNCHANGED <<v_name, v_frames, v_meta, v_out, v_seen, v_born, v_now, v_quiet, v_noise>>
    /\ VideoOnly

\* _handle_frame_chunk(packet).  cv2.imdecode decides whether the joined
\* bytes are an image and the callback is called.
VHandle(packet) ==
    LET m == Parse(packet)
        key == <<m.sender, m.id>>
        buffer == UPut(IF key \in DOMAIN v_frames THEN v_frames[key] ELSE << >>,
                       m.idx, m.payload)
    IN IF ~m.ok \/ m.sender = VSelf
       THEN UNCHANGED <<v_frames, v_meta, v_out, v_seen, v_born>>
       ELSE /\ v_seen' = UPut(v_seen, key,
                              (IF key \in DOMAIN v_seen THEN v_seen[key] ELSE {})
                                  \cup {m.idx})
            /\ IF Complete(buffer, m.total)
               THEN /\ v_frames' = UPop(v_frames, {key})
                    /\ v_meta' = UPop(v_meta, {key})
                    /\ v_born' = UPop(v_born, {key})
                    /\ \E shown \in BOOLEAN :
                         v_out' = [sender |-> m.sender, id |-> m.id, total |-> m.total,
                                   bytes |-> Join(buffer, m.total), shown |-> shown]
               ELSE /\ v_frames' = UPut(v_frames, key, buffer)
                    /\ v_meta' = UPut(v_meta, key, [total |-> m.total, created |-> v_now])
                    /\ v_born' = IF key \in DOMAIN v_born THEN v_born
                                 ELSE UPut(v_born, key, v_now)
                    /\ v_out' = v_out

\* The datagram _send_frame made for chunk i of the last frame.
VDatagram(i) ==
    Packet(v_name, v_cur.id, i, TotalChunks(Len(v_cur.bytes)), Chunk(v_cur.bytes, i))

\* _receive_video: recvfrom returns a datagram that starts with FRAME_HEADER.
VDeliver(i) ==
    /\ i \in v_net
    /\ v_net' = v_net \ {i}
    /\ VHandle(VDatagram(i))
    /\ v_quiet' = 0
    /\ UNCHANGED <<v_name, v_counter, v_cur, v_now, v_left, v_noise>>
    /\ VideoOnly

\* UDP loses a datagram.
VLose(i) ==
    /\ i \in v_net
    /\ v_noise > 0
    /\ v_net' = v_net \ {i}
    /\ v_noise' = v_noise - 1
    /\ UNCHANGED <<v_name, v_counter, v_cur, v_frames, v_meta, v_out, v_seen, v_born,
                   v_now, v_quiet, v_left>>
    /\ VideoOnly

\* UDP delivers a datagram that it will deliver once more.
VDuplicate(i) ==
    /\ i \in v_net
    /\ v_noise > 0
    /\ VHandle(VDatagram(i))
    /\ v_noise' = v_noise - 1
    /\ v_quiet' = 0
    /\ UNCHANGED <<v_name, v_counter, v_cur, v_net, v_now, v_left>>
    /\ VideoOnly

\* The relay passes on a datagram of another endpoint: a chunk that names
\* any frame, index and total.
VStray(id, i, total) ==
    /\ v_name # <<>>
    /\ v_noise > 0
    /\ VHandle(Packet(<<"a">>, id, i, total, <<"y">>))
    /\ v_noise' = v_noise - 1
    /\ v_quiet' = 0
    /\ UNCHANGED <<v_name, v_counter, v_cur, v_net, v_now, v_left>>
    /\ VideoOnly

\* Half a second passes with no datagram on its way; recvfrom does not wait
\* longer than its timeout.
VTick ==
    /\ v_name # <<>>
    /\ v_net = {}
    /\ v_quiet < SOCKET_TIMEOUT
    /\ v_now < VMaxTime
    /\ v_now' = v_now + 1
    /\ v_quiet' = v_quiet + 1
    /\ UNCHANGED <<v_name, v_counter, v_cur, v_net, v_frames, v_meta, v_out, v_seen, v_born,
                   v_left, v_noise>>
    /\ VideoOnly

\* _receive_video: socket.timeout, then _cleanup_stale_frames.
VTimeout ==
    /\ v_quiet = SOCKET_TIMEOUT
    /\ LET stale_keys == {key \in DOMAIN v_meta : Stale(v_meta[key].created)}
       IN /\ v_frames' = UPop(v_frames, stale_keys)
          /\ v_meta' = UPop(v_meta, stale_keys)
          /\ v_born' = UPop(v_born, stale_keys)
    /\ v_quiet' = 0
    /\ UNCHANGED <<v_name, v_counter, v_cur, v_net, v_out, v_seen, v_now, v_left, v_noise>>
    /\ VideoOnly

VideoNext ==
    \/ \E n \in VNames : VConnect(n)
    \/ \E frame \in VFrameBytes : VSendFrame(frame)
    \/ \E i \in 0..VMaxLen : VDeliver(i)
    \/ \E i \in 0..VMaxLen : VLose(i)
    \/ \E i \in 0..VMaxLen : VDuplicate(i)
    \/ \E i \in 0..2, total \in 1..2 : VStray(0, i, total)
    \/ VTick
    \/ VTimeout

\* ------------------------------------------------------------ orchestrator
\* server.py, MainServer.  The services are numbered by their position in
\* self.modules: 1 chat, 2 file transfer, 3 video, 4 audio, 5 screen share,
\* 6 participants.

OMaxRuns == 2       \* calls of start_modules and stop_modules per run

NModules == 6
OModules == 1..NModules

\* reversed(modules) of _stop_modules_list.
StopOrder_Forward(list) == list
StopOrder(list) == [i \in 1..Len(list) |-> list[Len(list) + 1 - i]]

OrchInit ==
    /\ module_states = [m \in OModules |-> "stopped"]
    /\ active_modules = <<>>
    /\ o_running = FALSE
    /\ o_pc = "idle"
    /\ o_index = 1
    /\ o_started = <<>>
    /\ o_todo = <<>>
    /\ o_up = {}
    /\ o_calls = <<>>
    /\ o_raised = FALSE
    /\ o_runs = OMaxRuns

\* start_modules is called: it returns at once when the server runs, and
\* else sets out with started = [].
OStartModules ==
    /\ o_pc = "idle"
    /\ o_runs > 0
    /\ o_runs' = o_runs - 1
    /\ o_calls' = <<>>
    /\ o_raised' = FALSE
    /\ IF o_running
       THEN UNCHANGED <<o_pc, o_index, o_started>>
       ELSE o_pc' = "loop" /\ o_index' = 1 /\ o_started' = <<>>
    /\ UNCHANGED <<module_states, active_modules, o_running, o_todo, o_up>>
    /\ OrchOnly

\* The loop's next turn: the status becomes "starting" and module.start() is
\* called.
OStarting ==
    /\ o_pc = "loop"
    /\ o_index <= NModules
    /\ module_states' = [module_states EXCEPT ![o_index] = "starting"]
    /\ o_calls' = Append(o_calls, [op |-> "start", module |-> o_index])
    /\ o_pc' = "call"
    /\ UNCHANGED <<active_modules, o_running, o_index, o_started, o_todo, o_up, o_raised,
                   o_runs>>
    /\ OrchOnly

\* module.start() returns: with anything but False the service is "running"
\* and joins `started`; with False, or when it raises, the except clause is
\* entered.
OStartReturns(result) ==
    /\ o_pc = "call"
    /\ IF result = "ok"
       THEN /\ module_states' = [module_states EXCEPT ![o_index] = "running"]
            /\ o_started' = Append(o_started, o_index)
            /\ o_up' = o_up \cup {o_index}
            /\ o_index' = o_index + 1
            /\ o_pc' = "loop"
       ELSE /\ o_pc' = "except"
            /\ UNCHANGED <<module_states, o_started, o_up, o_index>>
    /\ UNCHANGED <<active_modules, o_running, o_todo, o_calls, o_raised, o_runs>>
    /\ OrchOnly

\* The loop is over: active_modules = started, running = True.
OStartDone ==
    /\ o_pc = "loop"
    /\ o_index > NModules
    /\ active_modules' = o_started
    /\ o_running' = TRUE
    /\ o_pc' = "idle"
    /\ o_index' = 1
    /\ o_started' = <<>>
    /\ UNCHANGED <<module_states, o_todo, o_up, o_calls, o_raised, o_runs>>
    /\ OrchOnly

\* except Exception: the failing service's status becomes "error", and the
\* services of `started`, if any, are rolled back.
OExcept ==
    /\ o_pc = "except"
    /\ module_states' = [module_states EXCEPT ![o_index] = "error"]
    /\ o_todo' = StopOrder(o_started)
    /\ o_pc' = IF o_started # <<>> THEN "rollback" ELSE "reraise"
    /\ UNCHANGED <<active_modules, o_running, o_index, o_started, o_up, o_calls, o_raised,
                   o_runs>>
    /\ OrchOnly

\* _stop_modules_list, one turn: "stopping", module.stop(), whose exception
\* is caught, and "stopped" in the finally clause.
OStopOne(raises) ==
    /\ o_pc \in {"rollback", "shutdown"}
    /\ o_todo # <<>>
    /\ module_states' = [module_states EXCEPT ![Head(o_todo)] = "stopped"]
    /\ o_calls' = Append(o_calls, [op |-> "stop", module |-> Head(o_todo)])
    /\ o_up' = IF raises THEN o_up ELSE o_up \ {Head(o_todo)}
    /\ o_todo' = Tail(o_todo)
    /\ o_pc' = IF Tail(o_todo) # <<>> THEN o_pc
               ELSE IF o_pc = "rollback" THEN "reraise" ELSE "clear"
    /\ UNCHANGED <<active_modules, o_running, o_index, o_started, o_raised, o_runs>>
    /\ OrchOnly

\* The end of the except clause: active_modules = [], running = False, raise.
OReraise ==
    /\ o_pc = "reraise"
    /\ active_modules' = <<>>
    /\ o_running' = FALSE
    /\ o_raised' = TRUE
    /\ o_pc' = "idle"
    /\ o_index' = 1
    /\ o_started' = <<>>
    /\ UNCHANGED <<module_states, o_todo, o_up, o_calls, o_runs>>
    /\ OrchOnly

\* stop_modules is called: it returns at once when nothing runs, and else
\* stops the active modules.
OStopModules ==
    /\ o_pc = "idle"
    /\ o_runs > 0
    /\ o_runs' = o_runs - 1
    /\ o_calls' = <<>>
    /\ IF ~o_running /\ active_modules = <<>>
       THEN UNCHANGED <<o_pc, o_todo>>
       ELSE /\ o_todo' = StopOrder(active_modules)
            /\ o_pc' = IF active_modules # <<>> THEN "shutdown" ELSE "clear"
    /\ UNCHANGED <<module_states, active_modules, o_running, o_index, o_started, o_up,
                   o_raised>>
    /\ OrchOnly

\* The end of stop_modules: active_modules.clear(), running = False.
OStopDone ==
    /\ o_pc = "clear"
    /\ active_modules' = <<>>
    /\ o_running' = FALSE
    /\ o_pc' = "idle"
    /\ UNCHANGED <<module_states, o_index, o_started, o_todo, o_up, o_calls, o_raised,
                   o_runs>>
    /\ OrchOnly

OrchNext ==
    \/ OStartModules
    \/ OStarting
    \/ \E result \in {"ok", "false", "raise"} : OStartReturns(result)
    \/ OStartDone
    \/ OExcept
    \/ \E raises \in BOOLEAN : OStopOne(raises)
    \/ OReraise
    \/ OStopModules
    \/ OStopDone

vars == <<sVars, pVars, cVars, fVars, uVars, vVars, oVars>>

\* Each service is checked on its own, the others at rest.
Init == ScreenInit /\ PartInit /\ ChatInit /\ FileInit /\ UdpInit /\ VideoInit /\ OrchInit
InitLive == ScreenInitLive /\ PartInit /\ ChatInit /\ FileInit /\ UdpInit /\ VideoInit /\ OrchInit

SpecScreen == Init /\ [][ScreenNext]_vars

SpecPart == Init /\ [][PartNext]_vars

SpecChat == Init /\ [][ChatNext]_vars

SpecFile == Init /\ [][FileNext]_vars

SpecUdp == Init /\ [][UdpNext]_vars

SpecVideo == Init /\ [][VideoNext]_vars

SpecOrch == Init /\ [][OrchNext]_vars

\* The connection has ended for the registry: the peer closed it or a prune
\* closed the socket, so the handler's recv returns b"" or raises.
PEnded(c) == ~p_peer[c] \/ p_sock[c] = "closed"

\* Every runnable thread of the registry is eventually scheduled and a thread
\* waiting for the lock gets it once it stays free.  A handler whose client is
\* connected and silent need not time out: the client may go on sending
\* keepalives.
SpecPartFair ==
    /\ Init
    /\ [][PartNext]_vars
    /\ WF_vars(PAcceptStep)
    /\ \A t \in PThreads : WF_vars(PBroadcastStep(t))
    /\ \A c \in PConns :
          /\ WF_vars(PStatusUpdate(c) \/ PVideoStatus(c) \/ PKeepalive(c) \/ PGarbage(c))
          /\ WF_vars(PRemove(c))
          /\ WF_vars(PRecvEnds(c) /\ PEnded(c))

\* Every runnable thread of the relay is eventually scheduled, and a thread
\* waiting for presenter_lock gets it once it stays free.
SpecScreenFair ==
    /\ InitLive
    /\ [][ScreenNext]_vars
    /\ \A c \in Conns : WF_vars(HandlerStep(c)) /\ WF_vars(OnConnect(c))

\* ------------------------------------------------------ ScreenRelay: claims
\* The connection can be written to: its socket is open and its peer is up.
Healthy(c) == c # NoConn /\ sock[c] = "open" /\ peer[c]

\* Connection c is the one the registry holds under its username.
Registered(c) == name[c] # None /\ clients[name[c]] = c

\* The step taken is connection c's handler acting on message m.
Handles(c, m) == Reads(c, m) /\ inbox'[c] = Tail(inbox[c])

\* The step taken is the handler's last step of a granted start_presenting.
Grants(c) == pc[c] = "sp_notify" /\ pc'[c] = "recv"

\* The step taken is connection c's handler leaving its receive loop.
Exits(c) == pc[c] \in {"recv", "recv_body"} /\ pc'[c] = "x_remove"

\* The step taken is the accept thread's notice to the new connection c.
Welcomes(c) == acc = [pc |-> "on_connect", conn |-> c] /\ acc'.pc = "accept"

\* Every registered connection that can be written to is sent m.
ReachesAll(m, excl) ==
    \A u \in Users \ excl : Healthy(clients[u]) => Sent(clients[u], u, m) \in sent'

\* C1: at most one username holds the presenter role: at most one handler is
\* past the test of a start_presenting request at a time, current_presenter
\* is then its username, and presenting_allowed{allowed:true} is never sent
\* to a user while another user is the current presenter.
C1_MutualExclusion ==
    /\ current_presenter \in Users \cup {None}
    /\ Cardinality({c \in Conns : pc[c] \in {"sp_set", "sp_notify"}}) <= 1
    /\ \A c \in Conns : pc[c] = "sp_notify" => current_presenter = name[c]
    /\ \A s \in sent : s.msg = PresentingAllowed => current_presenter = s.user

\* A request was granted while the request of another user was waiting.
C1_Witness ==
    \E s \in sent, d \in Conns :
        /\ s.msg = PresentingAllowed
        /\ name[d] # s.user
        /\ Reads(d, "start_presenting")

\* C2: current_presenter is empty or the username of a client that is in the
\* clients registry.
C2_PresenterIsRegistered ==
    current_presenter # None => clients[current_presenter] # NoConn

\* C3: while A presents, a start_presenting from another registered user B is
\* answered with allowed:false and current_presenter A; a stop_presenting from
\* A empties the presenter, and a start_presenting from B handled then is
\* answered with allowed:true with the relay in Presenting(B).
C3_DenyThenGrant ==
    /\ [][\A c \in Conns :
            Handles(c, "start_presenting") /\ Registered(c) /\ Healthy(c) =>
                IF current_presenter = None
                THEN pc'[c] = "sp_set" /\ presenter_lock' = c
                ELSE current_presenter # name[c] =>
                       /\ sent' = {Sent(c, name[c], PresentingDenied(current_presenter))}
                       /\ current_presenter' = current_presenter]_vars
    /\ [][\A c \in Conns :
            Handles(c, "stop_presenting") /\ current_presenter = name[c] =>
                current_presenter' = None /\ stopped' = name[c]]_vars
    /\ [][\A c \in Conns :
            pc[c] = "sp_set" => current_presenter = None /\ presenter_lock = c]_vars
    /\ [][\A c \in Conns :
            Grants(c) /\ Registered(c) /\ Healthy(c) =>
                /\ current_presenter' = name[c]
                /\ Sent(c, name[c], PresentingAllowed) \in sent']_vars

\* B was granted after the presentation of A had been stopped.
C3_Witness ==
    /\ op.kind = "grant"
    /\ name[op.conn] = "B"
    /\ stopped = "A"
    /\ current_presenter = "B"
    /\ Sent(op.conn, "B", PresentingAllowed) \in sent

\* C4: a start_presenting from u handled while the relay is Idle sets the
\* state to Presenting(u), sends presenter_started{u} to every connected
\* client and presenting_allowed{allowed:true} to u, and sends nothing else.
C4_StartFromIdle ==
    /\ [][\A c \in Conns :
            Handles(c, "start_presenting") /\ current_presenter = None =>
                pc'[c] = "sp_set"]_vars
    /\ [][\A c \in Conns :
            pc[c] = "sp_set" /\ pc'[c] # "sp_set" =>
                pc'[c] = "sp_notify" /\ current_presenter' = name[c]]_vars
    /\ [][\A c \in Conns :
            Grants(c) =>
                /\ current_presenter' = name[c]
                /\ ReachesAll(PresenterStarted(name[c]), {})
                /\ Healthy(clients[name[c]]) =>
                     Sent(clients[name[c]], name[c], PresentingAllowed) \in sent'
                /\ \A s \in sent' :
                     \/ s.msg = PresenterStarted(name[c])
                     \/ s.msg = PresentingAllowed /\ s.user = name[c]]_vars

\* A start was granted: the requester got its reply and another client the notice.
C4_Witness ==
    \E u \in Users, v \in Users :
        /\ v # u
        /\ op.kind = "grant"
        /\ name[op.conn] = u
        /\ current_presenter = u
        /\ Sent(op.conn, u, PresentingAllowed) \in sent
        /\ Sent(op.conn, u, PresenterStarted(u)) \in sent
        /\ clients[v] # NoConn
        /\ Sent(clients[v], v, PresenterStarted(u)) \in sent

\* C5, as claimed: a start_presenting from u handled while another user
\* presents leaves current_presenter and the clients registry unchanged, and
\* the only message sent is the refusal to u.
C5_DenyChangesNothing ==
    [][\A c \in Conns :
         Handles(c, "start_presenting") /\ current_presenter \notin {None, name[c]} =>
             /\ current_presenter' = current_presenter
             /\ clients' = clients
             /\ sent' \subseteq
                  {Sent(clients[name[c]], name[c], PresentingDenied(current_presenter))}]_vars

\* C5, amended: current_presenter is unchanged; the registry is unchanged
\* unless the refusal cannot be delivered to u, and then only u's entry is
\* removed; the only message sent is the refusal to u, and it is sent when
\* u's connection can be written to.
C5_DenyPrunesOnlyRequester ==
    [][\A c \in Conns :
         Handles(c, "start_presenting") /\ current_presenter \notin {None, name[c]} =>
             /\ current_presenter' = current_presenter
             /\ sent' \subseteq
                  {Sent(clients[name[c]], name[c], PresentingDenied(current_presenter))}
             /\ \/ clients' = clients
                \/ /\ sent' = {}
                   /\ ~Healthy(clients[name[c]])
                   /\ clients' = RemoveClients(clients, {name[c]})
             /\ Healthy(clients[name[c]]) => sent' # {} /\ clients' = clients]_vars

\* A request was refused while a third client was connected.
C5_Witness ==
    \E v \in Users :
        /\ op.kind = "deny"
        /\ current_presenter \notin {None, name[op.conn], v}
        /\ v # name[op.conn]
        /\ Healthy(clients[v])
        /\ sent = {Sent(op.conn, name[op.conn], PresentingDenied(current_presenter))}

\* C6: stop_presenting from u changes the state if and only if u is the
\* current presenter; then the state becomes Idle and presenter_stopped{u} is
\* sent to every connected client; otherwise the presenter is unchanged and
\* nothing is sent.
C6_StopOnlyByPresenter ==
    [][\A c \in Conns :
         Handles(c, "stop_presenting") =>
             IF current_presenter = name[c]
             THEN /\ current_presenter' = None
                  /\ ReachesAll(PresenterStopped(name[c]), {})
                  /\ \A s \in sent' : s.msg = PresenterStopped(name[c])
             ELSE /\ current_presenter' = current_presenter
                  /\ clients' = clients
                  /\ sent' = {}]_vars

\* The presenter stopped and two clients were told.
C6_Witness ==
    /\ op.kind = "stop"
    /\ current_presenter = None
    /\ stopped = name[op.conn]
    /\ Cardinality(sent) >= 2

\* C7: a screen_frame from u is relayed if and only if u is the current
\* presenter when it is handled; it is then sent to every connected client
\* other than u and never to u; otherwise nothing is sent and nothing changes.
C7_FramesOnlyFromPresenter ==
    [][\A c \in Conns :
         Handles(c, "screen_frame") =>
             /\ current_presenter' = current_presenter
             /\ IF current_presenter = name[c]
                THEN /\ ReachesAll(ScreenFrame(name[c]), {name[c]})
                     /\ \A s \in sent' :
                          s.msg = ScreenFrame(name[c]) /\ s.user # name[c] /\ s.to # c
                ELSE /\ sent' = {}
                     /\ clients' = clients
                     /\ sock' = sock]_vars

\* A frame of the presenter was relayed to two viewers.
C7_Witness ==
    /\ op.kind = "frame"
    /\ current_presenter = name[op.conn]
    /\ Cardinality(sent) >= 2

\* The relay has no presenter.
Idle == current_presenter = None

\* Connection c has ended and its handler is still in its receive loop: the
\* peer is gone, or the next message read cannot be unpickled.
Ending(c) ==
    /\ name[c] # None
    /\ pc[c] \notin {"x_remove", "done"}
    /\ ~peer[c] \/ Reads(c, "undecodable")

\* C8: when the connection of the current presenter ends, the relay returns
\* to Idle: the handler leaving its loop empties the presenter and sends
\* presenter_stopped{presenter} to the remaining clients, as a stop_presenting
\* does, and a start_presenting handled in the Idle state is granted.
C8_PresenterDisconnect ==
    /\ \A c \in Conns : (Ending(c) /\ current_presenter = name[c]) ~> Idle
    /\ [][\A c \in Conns :
            Exits(c) /\ current_presenter = name[c] =>
                /\ current_presenter' = None
                /\ ReachesAll(PresenterStopped(name[c]), {})
                /\ \A s \in sent' : s.msg = PresenterStopped(name[c])]_vars
    /\ [][\A c \in Conns :
            Handles(c, "start_presenting") /\ current_presenter = None =>
                pc'[c] = "sp_set" /\ presenter_lock' = c]_vars

\* C9: a client that connects while the relay is in Presenting(x) is sent
\* presenter_started{x} by the accept thread; one that connects while the
\* relay is Idle is sent nothing on connect.
C9_NoticeOnConnect ==
    [][\A c \in Conns :
         Welcomes(c) =>
             IF current_presenter # None
             THEN /\ sent' \subseteq
                       {Sent(clients[name[c]], name[c], PresenterStarted(current_presenter))}
                  /\ Healthy(c) /\ Registered(c) => sent' # {}
             ELSE sent' = {}]_vars

\* A client connected during a presentation and was told who presents.
C9_Witness ==
    /\ op.kind = "on_connect"
    /\ current_presenter # None
    /\ current_presenter # name[op.conn]
    /\ sent = {Sent(op.conn, name[op.conn], PresenterStarted(current_presenter))}

\* ---------------------------------------------- ParticipantRegistry: claims
\* C10: a status_update or video_status from a registered connection updates
\* the record and is followed by a broadcast of the roster, and the handler
\* goes on to its next message: a handler with the broadcast ahead of it is
\* never waiting for the registry lock while it holds that lock itself.
C10_UpdateIsBroadcast ==
    \A c \in PConns : p_pc[c] = "bc_snap" => lock # c

\* The participant connection can be written to.
PHealthy(c) == p_sock[c] = "open" /\ p_peer[c]

\* The step taken is the accept thread's step from position a to position b.
PAccepts(a, b) == p_pc[PAcceptor] = a /\ p_pc'[PAcceptor] = b

\* C11: on connect with display name u the registry sets the record of u to
\* status online, video_active false; then the full roster, containing u, is
\* sent to the new connection; then the roster is broadcast to every
\* registered connection; the handler of the connection starts after that.
C11_ConnectSequence ==
    /\ [][PAccepts("register", "list_snap") =>
            /\ participants' = [participants EXCEPT ![p_name[p_conn]] = Joined]
            /\ p_clients' = p_clients \cup {p_conn}]_vars
    /\ [][PAccepts("list_snap", "list_send") =>
            p_snap'[PAcceptor] = [roster |-> participants, targets |-> {p_conn}]]_vars
    /\ [][PAccepts("list_send", "bc_snap") =>
            /\ p_sent' \subseteq {Roster(p_conn, p_snap[PAcceptor].roster)}
            /\ PHealthy(p_conn) => p_sent' # {}
            /\ \A s \in p_sent' : s.roster[p_name[p_conn]] # Absent]_vars
    /\ [][PAccepts("bc_snap", "bc_send") =>
            p_snap'[PAcceptor] = [roster |-> participants, targets |-> p_clients]]_vars
    /\ [][PAccepts("bc_send", "accept") \/ PAccepts("bc_send", "bc_prune") =>
            /\ \A c \in p_snap[PAcceptor].targets :
                   PHealthy(c) => Roster(c, p_snap[PAcceptor].roster) \in p_sent'
            /\ \A s \in p_sent' :
                   s.to \in p_snap[PAcceptor].targets
                   /\ s.roster = p_snap[PAcceptor].roster]_vars
    /\ [][\A c \in PConns :
            p_pc[c] = "unstarted" /\ p_pc'[c] # "unstarted" =>
                p_conn = c /\ p_pc[PAcceptor] \in {"bc_send", "bc_prune"}]_vars

\* The broadcast of thread t delivers the roster it copied to every copied
\* socket that can be written to, and nothing else.
PDelivers(t) ==
    /\ \A c \in p_snap[t].targets : PHealthy(c) => Roster(c, p_snap[t].roster) \in p_sent'
    /\ \A s \in p_sent' : s.to \in p_snap[t].targets /\ s.roster = p_snap[t].roster

\* C12: when a registered connection of username u ends, the record of u is
\* deleted and the handler then broadcasts the roster, which does not contain
\* u, to the remaining connections; no roster copied afterwards contains u
\* until a connection of that name is registered again.
C12_DisconnectRemoves ==
    /\ \A c \in PConns :
          (p_pc[c] = "remove" /\ c \in p_clients) ~> (p_op = [kind |-> "broadcast", thread |-> c])
    /\ [][\A c \in PConns :
            p_pc[c] = "remove" /\ p_pc'[c] # "remove" =>
                /\ participants'[p_name[c]] = Absent
                /\ c \notin p_clients'
                /\ c \in p_clients => p_pc'[c] = "bc_snap"]_vars
    /\ [][\A c \in PConns :
            p_pc[c] = "bc_snap" /\ p_pc'[c] = "bc_send" =>
                p_snap'[c] = [roster |-> participants, targets |-> p_clients]]_vars
    /\ [][\A c \in PConns : p_pc[c] = "bc_send" /\ p_pc'[c] # "bc_send" => PDelivers(c)]_vars
    /\ [](\A u \in PUsers :
            participants[u] # Absent => \E c \in p_clients : p_name[c] = u)

\* C13: when a send of a roster broadcast fails, the broadcast still reaches
\* every other connection, the failed connection and the record of its
\* username are removed, and every remaining connection is afterwards sent a
\* roster without that username (unless the name is registered again).
C13_FailedSendPrunes ==
    /\ [][\A t \in PThreads : p_pc[t] = "bc_send" /\ p_pc'[t] # "bc_send" => PDelivers(t)]_vars
    /\ [][\A t \in PThreads :
            p_pc[t] = "bc_prune" /\ p_pc'[t] # "bc_prune" =>
                /\ p_clients' = p_clients \ p_failed[t]
                /\ \A c \in p_failed[t] :
                       participants'[p_name[c]] = Absent /\ p_sock'[c] = "closed"]_vars
    /\ \A t \in PThreads : p_pc[t] = "bc_prune" ~> p_op = [kind |-> "prune", thread |-> t]
    /\ \A t \in PThreads, c \in PConns, d \in PConns :
          (p_pc[t] = "bc_prune" /\ c \in p_failed[t] /\ d \in p_clients \ p_failed[t])
              ~> \/ d \notin p_clients
                 \/ \E e \in p_clients : p_name[e] = p_name[c]
                 \/ \E s \in p_sent :
                      s.to = d /\ p_name[c] # None /\ s.roster[p_name[c]] = Absent

\* ------------------------------------------------------------- ChatRelay claims
\* The chat connection is registered and both of its ends are up.
ChHealthy(d) == d \in ChRegistered /\ ch_sock[d] = "open" /\ ch_peer[d]

\* Thread c leaves the loop of its broadcast of a client's message in this step.
ChMessageBroadcastEnds(c) ==
    ch_pc[c] = "bc" /\ ch_it[c].msg.type = "message" /\ ch_pc'[c] # "bc"

\* C14: a message a registered client has written is read and broadcast; the
\* broadcast reaches every other client that was registered when it began and
\* is still connected, reaches nobody twice and never reaches the sender.
C14_MessageToAllOthersOnce ==
    /\ [][\A c \in ChConns :
            (/\ ch_pc[c] = "recv" /\ ch_sock[c] = "open" /\ ch_inbox[c] # <<>>
             /\ c \in ChRegistered /\ \E d \in ChConns \ {c} : ChHealthy(d)
             /\ \A i \in 1..Len(ch_inbox[c]) : ch_inbox[c][i].type = "message"
             /\ ch_inbox'[c] # ch_inbox[c] /\ Len(ch_inbox'[c]) < Len(ch_inbox[c]))
                => ch_pc'[c] = "bc" /\ ch_it'[c].msg = Head(ch_inbox[c])]_vars
    /\ [][\A c \in ChConns :
            ChMessageBroadcastEnds(c) =>
                \A d \in ch_it[c].start \ {c} : ChHealthy(d) => d \in ch_it[c].done]_vars
    /\ [][\A c \in ChConns :
            (ch_pc[c] = "bc" /\ ch_it[c].msg.type = "message" /\ ch_it'[c].pos > ch_it[c].pos)
                => /\ ch_entries[ch_it'[c].pos - 1] \notin ch_it[c].done \cup ch_it[c].failed
                   /\ c \notin ch_it'[c].done]_vars

\* Thread c leaves the loop of its broadcast of a system notice of type t.
ChNoticeBroadcastEnds(c, t) ==
    ch_pc[c] = "bc" /\ ch_it[c].msg.type = t /\ ch_pc'[c] # "bc"

\* C15: registering a client starts the broadcast of its "joined" notice to
\* all clients, itself included; while other clients are connected, a client
\* leaves the registry only in a step that starts the broadcast of its "left"
\* notice, which happens once per registration; both notices reach every client that was registered when
\* the broadcast began and is still connected.
C15_JoinAndLeaveNotices ==
    /\ [][\A c \in ChConns :
            c \notin ChRegistered /\ c \in ChRegistered' =>
                /\ ch_pc'[c] = "bc"
                /\ ch_it'[c].msg = JoinNotice(ChNameOf(c))
                /\ ch_it'[c].excl = Hole /\ c \in ch_it'[c].start]_vars
    /\ [][\A c \in ChConns :
            (/\ c \in ChRegistered /\ c \notin ChRegistered'
             /\ \E d \in ChConns \ {c} : ChHealthy(d)) =>
                /\ ch_pc'[c] = "bc"
                /\ ch_it'[c].msg = LeaveNotice(ChNameOf(c))
                /\ ch_it'[c].excl = Hole /\ ch_it'[c].start = ChRegistered \ {c}]_vars
    /\ [][\A c \in ChConns :
            ch_it'[c].msg.type = "left" /\ ch_it[c].msg.type # "left" =>
                c \in ChRegistered]_vars
    /\ [][\A c \in ChConns :
            ChNoticeBroadcastEnds(c, "joined") \/ ChNoticeBroadcastEnds(c, "left") =>
                \A d \in ch_it[c].start : ChHealthy(d) => d \in ch_it[c].done]_vars

\* Thread c leaves the loop of a broadcast in which a send has failed.
ChFailingBroadcastEnds(c) ==
    ch_pc[c] = "bc" /\ ch_it[c].failed # {} /\ ch_pc'[c] # "bc"

\* C16: a failed send does not end the loop of its broadcast; when the
\* broadcast is over exactly the clients its sends failed on have left the
\* registry and are closed, every other client that was registered when it
\* began and is still connected has been sent the message, and the sending
\* client is still registered and served.
C16_SendFailureIsLocal ==
    /\ [][\A c \in ChConns :
            ch_pc[c] = "bc" /\ ch_it'[c].failed # ch_it[c].failed /\ ch_it'[c].failed # {} =>
                /\ ch_pc'[c] = "bc" /\ ch_it'[c].done = ch_it[c].done
                /\ ch_entries' = ch_entries /\ ch_sock' = ch_sock]_vars
    /\ [][\A c \in ChConns :
            ChFailingBroadcastEnds(c) =>
                /\ ChRegistered' = ChRegistered \ ch_it[c].failed
                /\ \A d \in ch_it[c].failed : ch_sock'[d] = "closed"]_vars
    /\ [][\A c \in ChConns :
            ChFailingBroadcastEnds(c) =>
                \A d \in ch_it[c].start \ (ch_it[c].failed \cup {ch_it[c].excl}) :
                    ChHealthy(d) => d \in ch_it[c].done]_vars
    /\ [][\A c \in ChConns :
            ChFailingBroadcastEnds(c) /\ ch_it[c].ret = "loop" /\ c \notin ch_it[c].failed =>
                ch_pc'[c] = "recv" /\ ch_sock'[c] = "open" /\ c \in ChRegistered']_vars

\* ---------------------------------------------------- FileCatalogService claims
\* Handler c finishes an upload in this step and reports success.
FUploadSucceeds(c) ==
    f_pc[c] = "up_done" /\ f_pc'[c] # "up_done" /\ f_reply'[c].status = "success"

\* C17: an upload reported as successful leaves its filename in the catalog
\* with the number of bytes received for it as its size; a catalog entry
\* changes only when an upload of that filename finishes; and a LIST reply
\* carries the catalog as it is.
C17_CatalogSizeIsReceived ==
    /\ [][\A c \in FConns :
            FUploadSucceeds(c) =>
                /\ ~TooLarge(f_req[c].filesize)
                /\ available_files'[f_req[c].filename] = f_recvd[c]]_vars
    /\ [][\A n \in FNames :
            available_files'[n] # available_files[n] =>
                \E c \in FConns :
                    f_pc[c] = "up_done" /\ f_pc'[c] # "up_done" /\ f_req[c].filename = n]_vars
    /\ [][\A c \in FConns :
            f_reply'[c] # f_reply[c] /\ f_reply'[c].status = "list" =>
                f_reply'[c].files = available_files]_vars

\* C18: when the receive loop of an upload has ended with fewer bytes than
\* declared, the handler leaves the catalog as it is and starts no catalog
\* broadcast.
C18_PartialUploadLeavesNoEntry ==
    [][\A c \in FConns :
          (f_pc[c] = "up_done" /\ f_pc'[c] # "up_done" /\ f_recvd[c] < f_req[c].filesize) =>
              /\ available_files' = available_files
              /\ f_pc'[c] # "bc" /\ f_it' = f_it]_vars

\* C19: the handler answers an UPLOAD whose declared size exceeds the maximum
\* with status error and nothing else: the storage directory, the catalog,
\* the list of connections and every broadcast stay as they are and the
\* handler is back at recv on its open connection; no upload over the limit
\* is ever being received, so none can enter the catalog.
C19_OversizedUploadRefused ==
    /\ [][\A c \in FConns :
            (/\ f_pc[c] = "recv" /\ f_cmd[c].command = "UPLOAD"
             /\ f_cmd[c].filesize > MAX_FILE_SIZE /\ f_cmd'[c] # f_cmd[c]) =>
                /\ f_peer[c] => f_reply'[c] = FReply("error", NoFiles)
                /\ f_reply'[c] \in {FReply("error", NoFiles), f_reply[c]}
                /\ disk' = disk /\ available_files' = available_files
                /\ f_clients' = f_clients /\ f_it' = f_it
                /\ f_pc'[c] = "recv" /\ f_cmd'[c] = NoCmd]_vars
    /\ [](\A c \in FConns :
            f_pc[c] \in {"up_data", "up_done"} => f_req[c].filesize <= MAX_FILE_SIZE)
    /\ [](\A n \in FNames : available_files[n] <= MAX_FILE_SIZE)

\* An oversized upload has been refused on a connection that is still open,
\* registered and at recv, while the catalog holds a file uploaded validly.
C19_Witness ==
    \E c \in FConns :
        /\ f_reply[c] = FReply("error", NoFiles)
        /\ f_pc[c] = "recv" /\ f_peer[c]
        /\ \E i \in 1..Len(f_clients) : f_clients[i] = c
        /\ \E n \in FNames : available_files[n] # NoFile

\* The connection is in the server's list and up on both sides.
FConnected(d) ==
    /\ \E i \in 1..Len(f_clients) : f_clients[i] = d
    /\ f_peer[d] /\ f_pc[d] # "done"

\* C20: every upload reported as successful starts a broadcast of the catalog
\* as it then is, and when that broadcast is over every connection that was
\* in the list when it began and is still connected has been sent the update.
C20_UploadIsBroadcast ==
    /\ [][\A c \in FConns :
            FUploadSucceeds(c) =>
                /\ f_pc'[c] = "bc"
                /\ f_it'[c].files = available_files'
                /\ f_it'[c].start = {f_clients[i] : i \in 1..Len(f_clients)}]_vars
    /\ [][\A c \in FConns :
            f_pc[c] = "bc" /\ f_pc'[c] # "bc" =>
                \A d \in f_it[c].start : FConnected(d) => d \in f_it[c].done]_vars

\* C21: an entry of the catalog is never removed and never changed: once a
\* filename is a key of available_files its size stays what it is.
C21_CatalogEntriesPersist ==
    [][\A n \in FNames :
          available_files[n] # NoFile => available_files'[n] = available_files[n]]_vars

\* ------------------------------------------------ VideoRelay, AudioMixer claims
\* What the video relay does with the packet it is processing: a data packet
\* that passed the checks is meant for every address registered then but its
\* sender, each turn of the loop sends it unchanged to the next of them (or
\* notes the failure), nothing is sent to the sender or with other content,
\* and a REGISTER packet or a packet of an unknown address reaches nobody else.
VideoForwarding ==
    /\ [][(u_kind = "video" /\ u_pc = "store" /\ u_pc' = "fwd") =>
              u_todo' = DOMAIN u_clients \ {u_pkt.from}]_vars
    /\ [][(u_kind = "video" /\ u_pc = "fwd" /\ u_todo' # u_todo) =>
              \E t \in u_todo :
                  /\ u_todo' = u_todo \ {t}
                  /\ \/ u_sent' = u_sent \cup {[to |-> t, data |-> u_pkt.body, echo |-> FALSE]}
                     \/ u_failed' = u_failed \cup {t} /\ u_sent' = u_sent]_vars
    /\ [](u_kind = "video" =>
              \A m \in u_sent :
                  IF m.echo THEN m.to = u_pkt.from /\ u_pkt.reg
                  ELSE m.to # u_pkt.from /\ m.data = u_pkt.body /\ ~u_pkt.reg)
    /\ [][(u_kind = "video" /\ u_pc = "idle" /\ u_pc' # "idle"
           /\ ~u_pkt'.reg /\ u_pkt'.from \notin DOMAIN u_clients) =>
              u_pc' = "skip" /\ u_sent' = {}]_vars
    /\ [](u_pc = "skip" => \A m \in u_sent : m.to = u_pkt.from)

\* C22: the video relay forwards as VideoForwarding says, and every non-empty
\* data packet of a registered address passes the checks when another
\* address is registered.
C22_NonEmptyDataForwarded ==
    /\ VideoForwarding
    /\ [][(u_kind = "video" /\ u_pc = "idle" /\ u_pc' # "idle" /\ ~u_pkt'.reg
           /\ u_pkt'.from \in DOMAIN u_clients /\ DOMAIN u_clients # {u_pkt'.from}
           /\ u_pkt'.body # <<>>) =>
              u_pc' = "store"]_vars

\* C22 as stated: every data packet of a registered address passes the checks
\* when another address is registered.
C22_AnyDataForwarded ==
    /\ VideoForwarding
    /\ [][(u_kind = "video" /\ u_pc = "idle" /\ u_pc' # "idle" /\ ~u_pkt'.reg
           /\ u_pkt'.from \in DOMAIN u_clients /\ DOMAIN u_clients # {u_pkt'.from}) =>
              u_pc' = "store"]_vars

\* The relay has sent a data packet to two other registered addresses.
C22_Witness ==
    /\ u_kind = "video" /\ u_pc = "fwd" /\ u_todo = {} /\ u_failed = {}
    /\ ~u_pkt.reg /\ u_pkt.body # <<>>
    /\ Cardinality({m.to : m \in u_sent}) = 2
    /\ {m.to : m \in u_sent} = DOMAIN u_clients \ {u_pkt.from}

\* C23: when the cleanup thread pops its stale addresses, an address is
\* removed if and only if the last packet processed from it is more than
\* CLIENT_TIMEOUT old at that moment.
C23_SweepEvictsExactlyTheSilent ==
    [][(u_sweep.pc = "pop" /\ u_sweep'.pc = "sleep") =>
          \A a \in DOMAIN u_last :
              a \notin DOMAIN u_last' <=> u_now - u_last[a] > CLIENT_TIMEOUT]_vars

\* C27: in the audio mixer every turn of the forwarding loop serves a
\* registered listener other than the sender; the chunks that go into its mix
\* are those of registered addresses only, the listener is sent the mix of
\* them when there is one and nothing when there is none.
C27_MixOfRegisteredOthers ==
    [][(u_kind = "audio" /\ u_pc = "fwd" /\ u_todo' # u_todo) =>
          \E t \in u_todo :
              LET used == {a \in DOMAIN u_chunks : a # t /\ u_chunks[a] # <<>>}
              IN /\ u_todo' = u_todo \ {t}
                 /\ t # u_pkt.from
                 /\ t \in DOMAIN u_clients
                 /\ used \subseteq DOMAIN u_clients
                 /\ IF used = {} THEN u_sent' = u_sent /\ u_failed' = u_failed
                    ELSE \/ u_sent' = u_sent \cup
                                  {[to |-> t, data |-> UMixFor(t), echo |-> FALSE]}
                         \/ u_failed' = u_failed \cup {t} /\ u_sent' = u_sent /\ u_fails' < u_fails]_vars

\* C28: every mix the audio mixer sends has as many samples as the shortest
\* chunk that went into it, and each of its samples is a 16-bit value.
C28_MixInRangeAndShortest ==
    [][(u_kind = "audio" /\ u_pc = "fwd" /\ u_sent' # u_sent) =>
          \A m \in u_sent' \ u_sent :
              LET used == {a \in DOMAIN u_chunks : a # m.to /\ u_chunks[a] # <<>>}
              IN /\ used # {}
                 /\ \A a \in used : Len(m.data) <= Len(u_chunks[a])
                 /\ \E a \in used : Len(m.data) = Len(u_chunks[a])
                 /\ \A i \in 1..Len(m.data) :
                        m.data[i] >= -32768 /\ m.data[i] <= 32767]_vars

\* A listener has been sent the mix of two chunks of different lengths that
\* both begin with a full-scale sample.
C28_Witness ==
    /\ u_kind = "audio" /\ u_pc = "fwd"
    /\ \E m \in u_sent :
          LET used == {a \in DOMAIN u_chunks : a # m.to /\ u_chunks[a] # <<>>}
          IN /\ Cardinality(used) = 2
             /\ \A a \in used : u_chunks[a][1] = 32767
             /\ {Len(u_chunks[a]) : a \in used} = {1, 2}
             /\ Len(m.data) = 1

\* C24: _send_frame cuts a frame into ceil(len / MAX_DATAGRAM_SIZE) chunks,
\* at least one, none longer than MAX_DATAGRAM_SIZE; when every datagram of
\* the frame has been handled by the receiver, once each, with none lost and
\* nothing else delivered, the bytes joined for decoding are the frame's.
C24_ReassemblyRoundTrip ==
    /\ [][v_left' # v_left =>
              LET len == Len(v_cur'.bytes)
                  n == Cardinality(v_net')
              IN /\ v_net' = 0..(n - 1)
                 /\ n >= 1 /\ n * MAX_DATAGRAM_SIZE >= len
                 /\ n = 1 \/ (n - 1) * MAX_DATAGRAM_SIZE < len
                 /\ \A i \in v_net' : Len(Chunk(v_cur'.bytes, i)) <= MAX_DATAGRAM_SIZE]_vars
    /\ []((v_cur.at = v_now /\ v_net = {} /\ v_noise = VMaxNoise) =>
              v_out.bytes = v_cur.bytes /\ v_out.id = v_cur.id /\ v_out.sender = v_name)

\* C25: the callback has been called for a frame only if every chunk index
\* 0..total_chunks-1 of its key has been handled, whatever was lost,
\* duplicated or delivered with an index out of range.
C25_ShownOnlyWhenAllReceived ==
    v_out.shown =>
        /\ <<v_out.sender, v_out.id>> \in DOMAIN v_seen
        /\ \A i \in 0..(v_out.total - 1) : i \in v_seen[<<v_out.sender, v_out.id>>]

\* A frame of two chunks has been shown in a run where a datagram was
\* duplicated or came from elsewhere, and the key has seen an index that is
\* out of the frame's range.
C25_Witness ==
    /\ v_out.shown /\ v_out.total = 2 /\ v_noise < VMaxNoise
    /\ v_out.bytes = v_cur.bytes /\ v_out.id = v_cur.id
    /\ 2 \in v_seen[<<v_out.sender, v_out.id>>]

\* C26: no incomplete buffer is in _incoming_frames more than
\* FRAME_EXPIRY_SECONDS after its creation: it is gone three half-seconds
\* after it.
C26_IncompleteBufferExpires ==
    \A key \in DOMAIN v_frames : v_now - v_born[key] <= FRAME_EXPIRY_SECONDS

\* The start() calls of the current start_modules, and its stop() calls.
OStarts == SelectSeq(o_calls, LAMBDA c : c.op = "start")
OStops == SelectSeq(o_calls, LAMBDA c : c.op = "stop")

\* C29: start_modules starts the services in the order of self.modules.  When
\* the start of service k fails, the k-1 services started before are stopped
\* in reverse order, the failure is raised, no service has the status
\* "running" and the running flag is false; when none fails, all six have
\* the status "running" and the flag is true.
C29_AllOrNothingStartup ==
    /\ [](\A i \in 1..Len(OStarts) : OStarts[i].module = i)
    /\ [][o_pc = "reraise" =>
              /\ o_raised' /\ ~o_running' /\ active_modules' = <<>>
              /\ \A m \in OModules : module_states'[m] # "running"
              /\ Len(OStarts) = o_index
              /\ Len(OStops) = o_index - 1
              /\ \A i \in 1..Len(OStops) : OStops[i].module = o_index - i]_vars
    /\ [][(o_pc = "loop" /\ o_pc' = "idle") =>
              /\ o_running' /\ ~o_raised'
              /\ \A m \in OModules : module_states'[m] = "running"
              /\ Len(OStarts) = NModules /\ OStops = <<>>]_vars
    /\ [](o_pc \in {"except", "rollback", "reraise"} => ~o_running)

\* The start of the fourth service failed and start_modules has raised: three
\* services were stopped.
C29_Witness ==
    /\ o_pc = "idle" /\ o_raised /\ ~o_running
    /\ module_states[4] = "error"
    /\ Len(OStops) = 3

\* C30: when the chat relay reads an undecodable message from a registered
\* connection, the connection stays registered and its thread goes on to
\* the next recv.
C30_MalformedMessageDropped ==
    [][\A c \in ChConns :
          (/\ c \in ChRegistered /\ ch_pc[c] = "recv" /\ ch_sock[c] = "open"
           /\ ch_inbox[c] = <<Garbage>> /\ ch_inbox'[c] = <<>>) =>
              ch_pc'[c] = "recv" /\ c \in ChRegistered']_vars

\* C31: the registry lock is always released again: whenever a thread holds
\* it, a later state has it free, so that the threads waiting for it go on.
C31_LockAlwaysReleased ==
    (lock # Unlocked) ~> (lock = Unlocked)

\* C32: a thread of the screen relay that holds presenter_lock sends nothing
\* to a client before it has released the lock.
C32_NoSendUnderLock ==
    [][\A c \in Conns :
          (presenter_lock = c /\ pc[c] = "sp_notify" /\ pc'[c] # "sp_notify") =>
              sent' = {}]_vars

\* C33: a broadcast of the chat relay ends only when every client that was
\* registered when it began and still is has been written to, whatever
\* other threads did to the registry meanwhile; and the thread that
\* broadcast a client's message then reads that client's next message.
C33_BroadcastOverSnapshot ==
    [][\A c \in ChConns :
          (ch_pc[c] = "bc" /\ ch_pc'[c] # "bc") =>
              /\ \A d \in (ch_it[c].start \cap ChRegistered) \ {ch_it[c].excl} :
                     d \in ch_it[c].done \cup ch_it[c].failed
              /\ (ch_it[c].ret = "loop" /\ c \notin ch_it[c].failed) =>
                     ch_pc'[c] = "recv"]_vars

\* C34: the accept thread of the screen relay, once it waits for the name of
\* a connection, is back at accept() later, whatever that connection does, so
\* that the connections after it are admitted.
C34_AcceptLoopGoesOn ==
    (acc.pc = "recv_name") ~> (acc.pc = "accept")

\* C35: a username that two connections of the participant registry share has
\* a record in the roster as long as one of the two is still registered.
C35_SharedNameStaysInRoster ==
    \A c \in p_clients :
        (\E d \in PConns \ {c} : p_name[d] = p_name[c]) =>
            participants[p_name[c]] # Absent

\* No thread of the participant registry is changing the roster or has a
\* broadcast of it under way.
PSettled ==
    \A t \in PThreads : p_pc[t] \in {"accept", "recv_name", "dead", "unstarted", "recv", "done"}

\* C36: once every roster change has been broadcast and none is under way, the
\* roster delivered last to every registered connection is the registry's
\* roster.
C36_RosterConverges ==
    PSettled => \A c \in p_clients : p_last[c] = participants

\* C37: when the handler of one connection of the screen relay ends and
\* removes its client, every other connection that is registered stays
\* registered and its socket stays as it was.
C37_EndRemovesOwnEntryOnly ==
    [][\A c \in Conns :
          (pc[c] = "x_remove" /\ pc'[c] = "done") =>
              \A d \in Conns \ {c} :
                  Registered(d) => (clients'[name[d]] = d /\ sock'[d] = sock[d])]_vars

\* C38: within one presentation no connection of the screen relay is sent
\* presenter_started twice, and a screen_frame is delivered only to a
\* connection that has been sent presenter_started for this presentation.
C38_StartedOnceBeforeFrames ==
    /\ \A c \in Conns : told[c] < 2
    /\ \A s \in sent : s.msg.type = "screen_frame" => told[s.to] = 1

\* C39: whenever the receive loop of a UDP relay is between two datagrams and
\* the sweep is asleep or over, the maps have the same keys: last_seen, and
\* the latest_chunks of the audio mixer, hold an entry exactly for the
\* addresses registered in clients.
C39_SameKeySets ==
    (u_pc = "idle" /\ u_sweep.pc \in {"sleep", "dead"}) =>
        /\ DOMAIN u_last = DOMAIN u_clients
        /\ u_kind = "audio" => DOMAIN u_chunks = DOMAIN u_clients

\* An upload of file n is receiving data on some connection.
FUploading(n) ==
    \E d \in FConns : f_pc[d] \in {"up_data", "up_done"} /\ f_req[d].filename = n

\* C40: a DOWNLOAD is answered with ready only for a filename of the catalog
\* that no connection is uploading, and the size it announces is the size the
\* catalog records for it.
C40_ReadyOnlyForCatalogFile ==
    [][\A c \in FConns :
          (f_pc[c] = "recv" /\ f_pc'[c] = "dl_send") =>
              LET n == f_cmd[c].filename
              IN /\ available_files[n] # NoFile
                 /\ ~FUploading(n)
                 /\ f_req'[c].filesize = available_files[n]]_vars

====
